---------------------------- MODULE Spec2Model ----------------------------
(***************************************************************************)
(* A model of the Mail.ru cloud client (package mailrucloud): the Account, *)
(* the CloudClient operations, and the Folder handle with its listing      *)
(* cache.  Strings are sequences of one-character strings, so that path    *)
(* normalisation, parent derivation and the public-link prefix are         *)
(* computed the way the code computes them.  The remote server is the      *)
(* environment: a small tree of entries that answers each request.         *)
(***************************************************************************)
EXTENDS Integers, Sequences, FiniteSets, TLC

VARIABLES
    account,    \* the Account object
    cancelled,  \* CloudClient.cancelCtx is done
    tree,       \* server: state of every entry of the remote tree
    sessionOK,  \* server: the session (cookies + token) is still accepted
    now,        \* wall clock, in seconds
    fld,        \* a Folder handle held by the caller (or none)
    hist,       \* observer of fld: when its listing was last fetched, the bytes
                \* the account used then, and the listing access before the last
    xfer,       \* per calling goroutine: its transfer request in flight (or idle)
    progress,   \* the progress subscriber: the 0% goroutines started and not
                \* yet run, and the notifications delivered so far
    res         \* the outcome of the last completed call

vars == <<account, cancelled, tree, sessionOK, now, fld, hist, xfer, progress, res>>

-----------------------------------------------------------------------------
(* Bounds of the model *)

MaxTime == 3

\* the longest path given to getPathStartEndSlash on its own
MaxPathLen == 4

\* the uploads a progress subscriber watches
MaxUploads == 2

-----------------------------------------------------------------------------
(* Strings *)

SL == "/"
BS == "\\"

\* strings.HasPrefix
HasPrefix(s, p) ==
    /\ Len(p) <= Len(s)
    /\ SubSeq(s, 1, Len(p)) = p

\* strings.HasSuffix
HasSuffix(s, p) ==
    /\ Len(p) <= Len(s)
    /\ SubSeq(s, Len(s) - Len(p) + 1, Len(s)) = p

\* strings.TrimSuffix
TrimSuffix(s, p) ==
    IF HasSuffix(s, p) THEN SubSeq(s, 1, Len(s) - Len(p)) ELSE s

\* strings.TrimPrefix
TrimPrefix(s, p) ==
    IF HasPrefix(s, p) THEN SubSeq(s, Len(p) + 1, Len(s)) ELSE s

\* strings.LastIndex(s, "/"), 1-based; 0 when there is none (Go: -1)
LastIndexSlash(s) ==
    LET I == {i \in 1..Len(s) : s[i] = SL}
    IN  IF I = {} THEN 0 ELSE CHOOSE i \in I : \A j \in I : j <= i

\* strings.Index(s, p), 1-based; 0 when p does not occur (Go: -1)
IndexOf(s, p) ==
    LET I == {i \in 1..(Len(s) - Len(p) + 1) : SubSeq(s, i, i + Len(p) - 1) = p}
    IN  IF I = {} THEN 0 ELSE CHOOSE i \in I : \A j \in I : i <= j

\* a replacement that replaces nothing
RemoveNone(s, old) == s

\* strings.Replace(s, old, "", 1): the first occurrence of old is removed
RemoveFirst(s, old) ==
    LET i == IndexOf(s, old)
    IN  IF i = 0 \/ old = <<>> THEN s
        ELSE SubSeq(s, 1, i - 1) \o SubSeq(s, i + Len(old), Len(s))

\* every backslash replaced by a slash, the runs left as long as they are
ReplaceBackslashes(s) == [i \in 1..Len(s) |-> IF s[i] = BS THEN SL ELSE s[i]]

\* regexp `[/\\]+` replaced by "/": every run of slashes and backslashes
\* becomes one slash
RECURSIVE CollapseSlashes(_)
CollapseSlashes(s) ==
    IF s = <<>> THEN <<>>
    ELSE LET rest == CollapseSlashes(Tail(s))
         IN  IF Head(s) \in {SL, BS}
             THEN IF rest # <<>> /\ Head(rest) = SL THEN rest ELSE <<SL>> \o rest
             ELSE <<Head(s)>> \o rest

\* CloudClient.getPathStartEndSlash
getPathStartEndSlash(path, setAtStart, setAtEnd) ==
    LET p1 == IF setAtStart THEN <<SL>> \o path ELSE path
        p2 == IF setAtEnd THEN p1 \o <<SL>> ELSE p1
    IN  CollapseSlashes(p2)

\* CloudClient.getParentCloudPath
getParentCloudPath(path) ==
    LET p == TrimSuffix(path, <<SL>>)
        lastIndex == LastIndexSlash(p)
    IN  IF lastIndex = 0 THEN <<SL>> ELSE SubSeq(p, 1, lastIndex)

\* path/filepath.Base
RECURSIVE StripTrailingSlashes(_)
StripTrailingSlashes(s) ==
    IF s # <<>> /\ s[Len(s)] = SL
    THEN StripTrailingSlashes(SubSeq(s, 1, Len(s) - 1))
    ELSE s

FilepathBase(path) ==
    IF path = <<>> THEN <<".">>
    ELSE LET p == StripTrailingSlashes(path)
             i == LastIndexSlash(p)
             q == IF i > 0 THEN SubSeq(p, i + 1, Len(p)) ELSE p
         IN  IF q = <<>> THEN <<SL>> ELSE q

\* const PublicLink = "https://cloud.mail.ru/public/"
PublicLink ==
    <<"h","t","t","p","s",":","/","/","c","l","o","u","d",".","m","a","i","l",
      ".","r","u","/","p","u","b","l","i","c","/">>

-----------------------------------------------------------------------------
(* The remote server (the environment).  Its tree holds, besides the root, *)
(* the entries of Homes; a folder answers a listing request with its       *)
(* children, one level deep.                                               *)

Root == <<SL>>
fName == <<"f", ".", "t">>
pA == <<SL, "a">>
pB == <<SL, "b">>
pF == <<SL>> \o fName
pAF == pA \o <<SL>> \o fName
pBF == pB \o <<SL>> \o fName
pBA == pB \o pA
pCT == <<SL, "c", ".", "t">>

Homes == {pA, pB, pF, pAF, pBA, pCT}
HomeOrder == <<pA, pB, pF, pAF, pBA, pCT>>
FolderHomes == {pA, pB, pBA}

\* entries that the model lets a caller publish
Publishable == {pA, pF}

EntryStates == {"absent", "plain", "shared"}

SrvParent(h) ==
    LET p == getParentCloudPath(h)
    IN  IF p = Root THEN Root ELSE TrimSuffix(p, <<SL>>)

SrvName(h) == IF h = Root THEN Root ELSE FilepathBase(h)

SrvPresent(t, h) == h = Root \/ (h \in Homes /\ t[h] # "absent")

SrvIsFolder(t, h) == h = Root \/ (h \in FolderHomes /\ t[h] # "absent")

\* the opaque suffix the server issues for a published entry
WeblinkOf(h) == <<"w">> \o h

SrvWeblink(t, h) ==
    IF h \in Homes /\ t[h] = "shared" THEN WeblinkOf(h) ELSE <<>>

SrvFilesUnder(t, h) ==
    {x \in Homes \ FolderHomes : t[x] # "absent" /\ (h = Root \/ SrvParent(x) = h)}

\* bytes used on the account: every file holds one unit
SrvUsed(t) == Cardinality(SrvFilesUnder(t, Root))

SrvSize(t, h) == IF h \in FolderHomes \/ h = Root
                 THEN Cardinality(SrvFilesUnder(t, h)) ELSE 1

SrvChildHomes(t, h) ==
    SelectSeq(HomeOrder, LAMBDA x : t[x] # "absent" /\ SrvParent(x) = h)

SrvCount(t, h) ==
    [Files   |-> Len(SelectSeq(SrvChildHomes(t, h), LAMBDA x : x \notin FolderHomes)),
     Folders |-> Len(SelectSeq(SrvChildHomes(t, h), LAMBDA x : x \in FolderHomes))]

\* one CloudStructureEntry of a listing; a child carries no list of its own
SrvChildEntry(t, h) ==
    [Type    |-> IF h \in FolderHomes THEN "folder" ELSE "file",
     Name    |-> SrvName(h),
     Home    |-> h,
     Weblink |-> SrvWeblink(t, h),
     Size    |-> SrvSize(t, h),
     Count   |-> SrvCount(t, h),
     Hash    |-> IF h \in FolderHomes THEN <<>> ELSE <<"#">>]

\* the home a request path names: the server ignores a trailing slash
SrvHome(path) == IF path = Root THEN Root ELSE TrimSuffix(path, <<SL>>)

\* GET /api/v2/folder?home=path
SrvFolderResponse(t, sOK, path) ==
    LET h == SrvHome(path)
    IN  IF ~sOK THEN [status |-> 403]
        ELSE IF ~SrvIsFolder(t, h) THEN [status |-> 404]
        ELSE [status  |-> 200,
              Count   |-> SrvCount(t, h),
              Name    |-> SrvName(h),
              Size    |-> SrvSize(t, h),
              Home    |-> h,
              Weblink |-> SrvWeblink(t, h),
              List    |-> [i \in 1..Len(SrvChildHomes(t, h)) |->
                              SrvChildEntry(t, SrvChildHomes(t, h)[i])]]

\* GET /api/v2/user/space
SrvSpaceResponse(t, sOK) ==
    IF sOK THEN [status |-> 200, bytes_used |-> SrvUsed(t)] ELSE [status |-> 403]

\* a tree in which no entry outlives its parent folder
TreeOK(t) == \A h \in Homes : t[h] # "absent" => SrvPresent(t, SrvParent(h))

-----------------------------------------------------------------------------
(* Values *)

\* a nil pointer
NilV == [kind |-> "nil"]

\* an HTTP request issued by the client: its endpoint and its main parameter
Req(k, p) == [k |-> k, p |-> p]

\* the zero time.Time
NoTime == -1

\* the server reports megabytes; the client multiplies by 1024 * 1024
MB == 1048576

NilItems == [nil |-> TRUE, list |-> <<>>]
Items(list) == [nil |-> FALSE, list |-> list]

\* the error values of the package: the ErrorCode of a CloudClientError,
\* "NotAuthorized" for a NotAuthorizedError, "Other" for any other error
\* (fmt.Errorf, a JSON decoding error, a transport error), "Canceled" for
\* the error of a request whose context is done, and "panic" for a nil
\* pointer dereference
OK == "none"

-----------------------------------------------------------------------------
(* Account *)

NewAccount(email, password) ==
    [Email            |-> email,
     Password         |-> password,
     ActivatedTariffs |-> <<>>,
     authToken        |-> "",
     httpClient       |-> FALSE,
     cookies          |-> TRUE]

\* the request of Account.getDiskUsageInternal
DiskUsageRequest(a, t, sOK) ==
    IF ~a.httpClient THEN [err |-> "panic", reqs |-> <<>>, Used |-> 0]
    ELSE LET resp == SrvSpaceResponse(t, sOK)
         IN  IF resp.status # 200
             THEN [err |-> "NotAuthorized", reqs |-> <<Req("space", <<>>)>>, Used |-> 0]
             ELSE [err |-> OK, reqs |-> <<Req("space", <<>>)>>, Used |-> resp.bytes_used * MB]

\* Account.checkAuthorization
AccountCheckAuthorizationInternal(a, t, sOK, baseCheckout) ==
    IF a.Email = "" THEN [err |-> "NotAuthorized", reqs |-> <<>>]
    ELSE IF a.Password = "" THEN [err |-> "NotAuthorized", reqs |-> <<>>]
    ELSE IF baseCheckout THEN [err |-> OK, reqs |-> <<>>]
    ELSE IF ~a.cookies THEN [err |-> "NotAuthorized", reqs |-> <<>>]
    ELSE IF a.authToken = "" THEN [err |-> "NotAuthorized", reqs |-> <<>>]
    ELSE LET d == DiskUsageRequest(a, t, sOK)
         IN  [err |-> d.err, reqs |-> d.reqs]

\* Account.CheckAuthorization: (bool, error), from the error c of
\* checkAuthorization(false).  The error is dropped: the answer is
\* (false, nil).
CheckAuthorizationOf(c) ==
    IF c.err = "panic" THEN [ok |-> FALSE, err |-> "panic", reqs |-> c.reqs]
    ELSE IF c.err # OK THEN [ok |-> FALSE, err |-> OK, reqs |-> c.reqs]
    ELSE [ok |-> TRUE, err |-> OK, reqs |-> c.reqs]

AccountCheckAuthorization(a, t, sOK) ==
    CheckAuthorizationOf(AccountCheckAuthorizationInternal(a, t, sOK, FALSE))

\* Account.GetDiskUsage: getDiskUsageInternal(true), from the outcome c of
\* its authorization check and the outcome d of its request
GetDiskUsageOf(c, d) ==
    IF c.err # OK THEN [err |-> c.err, reqs |-> c.reqs, Used |-> 0]
    ELSE [err |-> d.err, reqs |-> c.reqs \o d.reqs, Used |-> d.Used]

AccountGetDiskUsage(a, t, sOK) ==
    GetDiskUsageOf(AccountCheckAuthorizationInternal(a, t, sOK, FALSE),
                   DiskUsageRequest(a, t, sOK))

\* a limit that an account without tariffs does not have
Has2GBUploadSizeLimitSome(a) ==
    /\ a.ActivatedTariffs # <<>>
    /\ \A i \in 1..Len(a.ActivatedTariffs) : a.ActivatedTariffs[i] = "ZERO"

\* Account.Has2GBUploadSizeLimit
Has2GBUploadSizeLimit(a) ==
    \A i \in 1..Len(a.ActivatedTariffs) : a.ActivatedTariffs[i] = "ZERO"

-----------------------------------------------------------------------------
(* CloudClient: authorization and listing *)

\* CloudClient.checkAuthorization: the error of Account.CheckAuthorization
checkAuthorization(a, t, sOK) == AccountCheckAuthorization(a, t, sOK)

\* the Folder that GetFolder builds from a decoded listing: the counts go
\* to the embedded CloudStructureEntryBase, the Folder's own FilesCount and
\* FoldersCount keep their zero value
FolderOfListing(d) ==
    [kind |-> "folder",
     base |-> [Name         |-> d.Name,
               Size         |-> d.Size,
               FullPath     |-> d.Home,
               PublicLink   |-> IF d.Weblink # <<>> THEN PublicLink \o d.Weblink
                                ELSE <<>>,
               FilesCount   |-> d.Count.Files,
               FoldersCount |-> d.Count.Folders,
               account      |-> TRUE,
               client       |-> TRUE],
     FoldersCount         |-> 0,
     FilesCount           |-> 0,
     Items                |-> Items(d.List),
     prevDiskUsed         |-> 0,
     lastItemsGettingTime |-> NoTime]

\* a GetFolder that reports a listing response that is no success as an error
GetFolderStrict(a, auth, path, resp) ==
    IF auth.err # OK
    THEN [err |-> auth.err, folder |-> NilV, reqs |-> auth.reqs]
    ELSE IF ~a.httpClient
    THEN [err |-> "panic", folder |-> NilV, reqs |-> auth.reqs]
    ELSE IF resp.status # 200
    THEN [err |-> "PathNotExists", folder |-> NilV,
          reqs |-> auth.reqs \o <<Req("folder", path)>>]
    ELSE [err |-> OK, folder |-> FolderOfListing(resp),
          reqs |-> auth.reqs \o <<Req("folder", path)>>]

\* CloudClient.GetFolder, from the outcome of its authorization check and
\* the answer of the server to its request for path
GetFolderOf(a, auth, path, resp) ==
    IF auth.err # OK
    THEN [err |-> auth.err, folder |-> NilV, reqs |-> auth.reqs]
    ELSE IF ~a.httpClient
    THEN [err |-> "panic", folder |-> NilV, reqs |-> auth.reqs]
    ELSE IF resp.status # 200
    THEN [err |-> OK, folder |-> NilV, reqs |-> auth.reqs \o <<Req("folder", path)>>]
    ELSE [err |-> OK, folder |-> FolderOfListing(resp),
          reqs |-> auth.reqs \o <<Req("folder", path)>>]

GetFolder(a, t, sOK, fullPath) ==
    GetFolderOf(a, checkAuthorization(a, t, sOK),
                getPathStartEndSlash(fullPath, TRUE, TRUE),
                SrvFolderResponse(t, sOK, getPathStartEndSlash(fullPath, TRUE, TRUE)))

-----------------------------------------------------------------------------
(* Folder: the listing cache *)

\* the freshness window of updateFolderInfo, in seconds
FreshnessWindow == 1

\* a refresh that asks for the listing at every access and keeps nothing
updateFolderInfoUncached(f, forceUpdate, T, probe, fetch) ==
    [panic |-> FALSE, f |-> f, reqs |-> fetch.reqs,
     changed |-> FALSE, fetched |-> FALSE]

\* Folder.updateFolderInfo.  The condition is Go's
\*   f.Items == nil || (diffTime > 1.0 && probe()) || forceUpdate
\* evaluated left to right: the disk-usage probe runs only when the folder
\* holds a listing and the window has passed.  probe is the outcome of
\* f.account.GetDiskUsage(), fetch that of f.client.GetFolder(f.FullPath).
updateFolderInfoOf(f, forceUpdate, T, probe, fetch) ==
    LET last      == IF f.lastItemsGettingTime = NoTime THEN T
                     ELSE f.lastItemsGettingTime
        probeRuns == ~f.Items.nil /\ T - last > FreshnessWindow
        gotUsage  == probeRuns /\ probe.err = OK
        changed   == gotUsage /\ probe.Used # f.prevDiskUsed
        doFetch   == f.Items.nil \/ changed \/ forceUpdate
        fetched   == doFetch /\ fetch.err = OK /\ fetch.folder # NilV
        f0        == [f EXCEPT !.lastItemsGettingTime = last]
        f1        == IF fetched
                     THEN [f0 EXCEPT !.Items = fetch.folder.Items,
                                     !.base.Size = fetch.folder.base.Size,
                                     !.base.PublicLink = fetch.folder.base.PublicLink,
                                     !.FilesCount = fetch.folder.FilesCount,
                                     !.FoldersCount = fetch.folder.FoldersCount,
                                     !.lastItemsGettingTime = T]
                     ELSE f0
        preqs     == IF probeRuns THEN probe.reqs ELSE <<>>
    IN  IF probeRuns /\ (~f.base.account \/ probe.err = "panic")
        THEN [panic |-> TRUE, f |-> f0, reqs |-> preqs,
              changed |-> FALSE, fetched |-> FALSE]
        ELSE IF doFetch /\ (~f.base.client \/ fetch.err = "panic")
        THEN [panic |-> TRUE, f |-> f0, reqs |-> preqs \o fetch.reqs,
              changed |-> changed, fetched |-> FALSE]
        ELSE [panic |-> FALSE,
              f |-> IF gotUsage THEN [f1 EXCEPT !.prevDiskUsed = probe.Used] ELSE f1,
              reqs |-> preqs \o (IF doFetch THEN fetch.reqs ELSE <<>>),
              changed |-> changed,
              fetched |-> fetched]

updateFolderInfo(f, forceUpdate, a, t, sOK, T) ==
    updateFolderInfoOf(f, forceUpdate, T, AccountGetDiskUsage(a, t, sOK),
                       GetFolder(a, t, sOK, f.base.FullPath))

\* a link builder that leaves the prefix out
ItemBareLink(item) == item.Weblink

ItemPublicLink(item) ==
    IF item.Weblink # <<>> THEN PublicLink \o item.Weblink ELSE <<>>

\* the File that Folder.GetFiles builds from an item of the listing
FileOfItem(f, item) ==
    [kind |-> "file",
     base |-> [Name         |-> item.Name,
               Size         |-> item.Size,
               FullPath     |-> item.Home,
               PublicLink   |-> ItemPublicLink(item),
               FilesCount   |-> 0,
               FoldersCount |-> 0,
               account      |-> f.base.account,
               client       |-> f.base.client],
     Hash |-> item.Hash]

\* the Folder that Folder.GetFolders builds from an item of the listing
FolderOfItem(f, item) ==
    [kind |-> "folder",
     base |-> [Name         |-> item.Name,
               Size         |-> item.Size,
               FullPath     |-> item.Home,
               PublicLink   |-> ItemPublicLink(item),
               FilesCount   |-> 0,
               FoldersCount |-> 0,
               account      |-> f.base.account,
               client       |-> f.base.client],
     FoldersCount         |-> item.Count.Folders,
     FilesCount           |-> item.Count.Files,
     Items                |-> NilItems,
     prevDiskUsed         |-> 0,
     lastItemsGettingTime |-> NoTime]

ItemsOfType(f, type) == SelectSeq(f.Items.list, LAMBDA item : item.Type = type)

\* Folder.GetFiles after its call u of updateFolderInfo(false): the
\* refreshed receiver, the requests issued, the result
GetFilesOf(u) ==
    [panic |-> u.panic, f |-> u.f, reqs |-> u.reqs,
     changed |-> u.changed, fetched |-> u.fetched,
     out |-> IF u.panic \/ u.f.Items.nil THEN <<>>
             ELSE [i \in 1..Len(ItemsOfType(u.f, "file")) |->
                      FileOfItem(u.f, ItemsOfType(u.f, "file")[i])]]

FolderGetFiles(f, a, t, sOK, T) ==
    GetFilesOf(updateFolderInfo(f, FALSE, a, t, sOK, T))

\* Folder.GetFolders after its call u of updateFolderInfo(false)
GetFoldersOf(u) ==
    [panic |-> u.panic, f |-> u.f, reqs |-> u.reqs,
     changed |-> u.changed, fetched |-> u.fetched,
     out |-> IF u.panic \/ u.f.Items.nil THEN <<>>
             ELSE [i \in 1..Len(ItemsOfType(u.f, "folder")) |->
                      FolderOfItem(u.f, ItemsOfType(u.f, "folder")[i])]]

FolderGetFolders(f, a, t, sOK, T) ==
    GetFoldersOf(updateFolderInfo(f, FALSE, a, t, sOK, T))

\* the first element of a sequence of handles whose Name is name
FirstNamed(hs, name) ==
    LET I == {i \in 1..Len(hs) : hs[i].base.Name = name}
    IN  IF I = {} THEN NilV ELSE hs[CHOOSE i \in I : \A j \in I : i <= j]

\* CloudClient.checkUnknownItemExisting: the parent folder is listed and its
\* files, then its folders, are scanned for the name.  GetFolder answers
\* (nil, nil) for a folder the server does not list, and the method calls
\* of the nil *Folder dereference it.

\* the scan of the folders, the result of parentFolder.GetFolders()
ExistingInFolders(itemName, reqs, folders) ==
    IF folders.panic
    THEN [err |-> "panic", item |-> NilV, reqs |-> reqs \o folders.reqs]
    ELSE IF FirstNamed(folders.out, itemName) # NilV
    THEN [err |-> OK, item |-> FirstNamed(folders.out, itemName).base,
          reqs |-> reqs \o folders.reqs]
    ELSE [err |-> "PathNotExists", item |-> NilV, reqs |-> reqs \o folders.reqs]

\* the scan of the files, the result of parentFolder.GetFiles()
ExistingInFiles(a, t, sOK, T, itemName, reqs, files) ==
    IF files.panic
    THEN [err |-> "panic", item |-> NilV, reqs |-> reqs \o files.reqs]
    ELSE IF FirstNamed(files.out, itemName) # NilV
    THEN [err |-> OK, item |-> FirstNamed(files.out, itemName).base,
          reqs |-> reqs \o files.reqs]
    ELSE ExistingInFolders(itemName, reqs \o files.reqs,
                           FolderGetFolders(files.f, a, t, sOK, T))

\* the outcome g of GetFolder(parentPath)
ExistingIn(a, t, sOK, T, itemName, g) ==
    IF g.err # OK THEN [err |-> g.err, item |-> NilV, reqs |-> g.reqs]
    ELSE IF g.folder = NilV
    THEN [err |-> "panic", item |-> NilV, reqs |-> g.reqs]
    ELSE ExistingInFiles(a, t, sOK, T, itemName, g.reqs,
                         FolderGetFiles(g.folder, a, t, sOK, T))

checkUnknownItemExisting(a, t, sOK, T, sourceFullPath) ==
    ExistingIn(a, t, sOK, T, FilepathBase(TrimSuffix(sourceFullPath, <<SL>>)),
               GetFolder(a, t, sOK, getParentCloudPath(sourceFullPath)))

-----------------------------------------------------------------------------
(* The server's answers to the requests that change the tree.  A 403       *)
(* answer carries an error object, which does not decode into the string   *)
(* the client expects.                                                     *)

ErrBody == [kind |-> "error"]
StrBody(str) == [kind |-> "string", str |-> str]

Rejected(t) == [status |-> 403, body |-> ErrBody, tree |-> t]

\* the entries at or below h
SrvSubtree(h) == {x \in Homes : x = h \/ SrvParent(x) = h}

\* POST /api/v2/file/remove
SrvRemove(t, sOK, home) ==
    IF ~sOK THEN Rejected(t)
    ELSE [status |-> 200, body |-> StrBody(home),
          tree |-> [x \in Homes |-> IF x \in SrvSubtree(home) THEN "absent" ELSE t[x]]]

\* POST /api/v2/file/publish
SrvPublish(t, sOK, home) ==
    IF ~sOK THEN Rejected(t)
    ELSE IF home \notin Homes \/ t[home] = "absent"
    THEN [status |-> 404, body |-> ErrBody, tree |-> t]
    ELSE [status |-> 200, body |-> StrBody(WeblinkOf(home)),
          tree |-> [t EXCEPT ![home] = "shared"]]

\* POST /api/v2/file/unpublish: the answer names the entry's path
SrvUnpublish(t, sOK, weblink) ==
    LET H == {h \in Homes : t[h] = "shared" /\ WeblinkOf(h) = weblink}
    IN  IF ~sOK THEN Rejected(t)
        ELSE IF H = {} THEN [status |-> 404, body |-> ErrBody, tree |-> t]
        ELSE LET h == CHOOSE h \in H : TRUE
             IN  [status |-> 200, body |-> StrBody(h),
                  tree |-> [t EXCEPT ![h] = "plain"]]

\* the path an entry takes in a folder
SrvJoin(folder, name) ==
    IF folder = Root THEN Root \o name ELSE folder \o <<SL>> \o name

\* the tree after the entries at and below `from` have become those at and
\* below `to` (move), or have been duplicated there (copy)
SrvTransplant(t, from, to, move) ==
    [x \in Homes |->
        IF x = to THEN "plain"
        ELSE IF SrvParent(x) = to /\ SrvJoin(from, SrvName(x)) \in Homes
        THEN t[SrvJoin(from, SrvName(x))]
        ELSE IF move /\ x \in SrvSubtree(from) THEN "absent"
        ELSE t[x]]

\* the destination of a rename, copy or move is free and within the tree
\* the model holds
SrvFits(t, from, to) ==
    /\ to \in Homes
    /\ t[to] = "absent"
    /\ (from \in FolderHomes) = (to \in FolderHomes)
    /\ \A x \in SrvSubtree(from) \ {from} :
          t[x] # "absent" => SrvJoin(to, SrvName(x)) \in Homes

\* POST /api/v2/file/copy and /api/v2/file/move
SrvMoveCopy(t, sOK, home, folder, move) ==
    LET to == SrvJoin(SrvHome(folder), SrvName(home))
    IN  IF ~sOK THEN Rejected(t)
        ELSE IF ~SrvPresent(t, home) \/ ~SrvIsFolder(t, SrvHome(folder))
                \/ home = Root \/ ~SrvFits(t, home, to)
        THEN [status |-> 404, body |-> ErrBody, tree |-> t]
        ELSE [status |-> 200, body |-> StrBody(to),
              tree |-> SrvTransplant(t, home, to, move)]

\* POST /api/v2/file/rename
SrvRename(t, sOK, home, name) ==
    LET to == SrvJoin(SrvParent(home), name)
    IN  IF ~sOK THEN Rejected(t)
        ELSE IF ~SrvPresent(t, home) \/ home = Root \/ ~SrvFits(t, home, to)
        THEN [status |-> 404, body |-> ErrBody, tree |-> t]
        ELSE [status |-> 200, body |-> StrBody(to),
              tree |-> SrvTransplant(t, home, to, TRUE)]

\* POST /api/v2/folder/add and /api/v2/file/add: the entry is created with
\* the folders above it
SrvAdd(t, sOK, addFile, path) ==
    LET home == SrvHome(path)
    IN  IF ~sOK THEN Rejected(t)
        ELSE IF home \notin Homes \/ t[home] # "absent"
                \/ (home \in FolderHomes) = addFile
        THEN [status |-> 400, body |-> ErrBody, tree |-> t]
        ELSE [status |-> 200, body |-> StrBody(home),
              tree |-> [x \in Homes |->
                          IF x = home \/ (x = SrvParent(home) /\ t[x] = "absent")
                          THEN "plain" ELSE t[x]]]

\* the same under the conflict policy of the request: "rewrite" replaces the
\* content of a file that is there, "rename" is answered as SrvAdd answers
SrvAddConflict(t, sOK, addFile, path, rewrite) ==
    IF sOK /\ rewrite /\ addFile /\ SrvHome(path) \in Homes \ FolderHomes
       /\ SrvPresent(t, SrvHome(path))
    THEN [status |-> 200, body |-> StrBody(SrvHome(path)), tree |-> t]
    ELSE SrvAdd(t, sOK, addFile, path)

-----------------------------------------------------------------------------
(* CloudClient: the operations.  Each yields the error, the requests       *)
(* issued, the value returned and the server's tree afterwards.            *)

Outcome(err, reqs, val, t) == [err |-> err, reqs |-> reqs, val |-> val, tree |-> t]

EntryV(item) == [kind |-> "entry", base |-> item]

\* strings.ToLower, on the letters the model uses
LowerChar(c) ==
    CASE c = "F" -> "f"
      [] c = "T" -> "t"
      [] c = "A" -> "a"
      [] c = "B" -> "b"
      [] OTHER   -> c

ToLower(str) == [i \in 1..Len(str) |-> LowerChar(str[i])]

\* path/filepath.Ext: the suffix of the last element from its last dot
RECURSIVE ExtFrom(_, _)
ExtFrom(path, i) ==
    IF i = 0 \/ path[i] = SL THEN <<>>
    ELSE IF path[i] = "." THEN SubSeq(path, i, Len(path))
    ELSE ExtFrom(path, i - 1)

FilepathExt(path) == ExtFrom(path, Len(path))

\* a createFileOrFolder whose request is bound to the context of the client
createFileOrFolderBound(a, t, addFile, path, auth, resp) ==
    IF auth.err # OK THEN Outcome(auth.err, auth.reqs, NilV, t)
    ELSE IF ~a.httpClient THEN Outcome("panic", auth.reqs, NilV, t)
    ELSE IF cancelled THEN Outcome("Canceled", auth.reqs, NilV, t)
    ELSE IF resp.body.kind # "string"
    THEN Outcome("Other",
                 auth.reqs \o <<Req(IF addFile THEN "file/add" ELSE "folder/add", path)>>,
                 NilV, resp.tree)
    ELSE Outcome(OK,
                 auth.reqs \o <<Req(IF addFile THEN "file/add" ELSE "folder/add", path)>>,
                 [kind    |-> "created",
                  NewName |-> FilepathBase(resp.body.str),
                  NewPath |-> resp.body.str],
                 resp.tree)

\* CloudClient.createFileOrFolder, from the outcome of its authorization
\* check and the answer of the server
createFileOrFolderOf(a, t, addFile, path, auth, resp) ==
    IF auth.err # OK THEN Outcome(auth.err, auth.reqs, NilV, t)
    ELSE IF ~a.httpClient THEN Outcome("panic", auth.reqs, NilV, t)
    ELSE IF resp.body.kind # "string"
    THEN Outcome("Other",
                 auth.reqs \o <<Req(IF addFile THEN "file/add" ELSE "folder/add", path)>>,
                 NilV, resp.tree)
    ELSE Outcome(OK,
                 auth.reqs \o <<Req(IF addFile THEN "file/add" ELSE "folder/add", path)>>,
                 [kind    |-> "created",
                  NewName |-> FilepathBase(resp.body.str),
                  NewPath |-> resp.body.str],
                 resp.tree)

createFileOrFolder(a, t, sOK, addFile, path, hash, size, rewriteExisting) ==
    createFileOrFolderOf(a, t, addFile, path, checkAuthorization(a, t, sOK),
                         SrvAddConflict(t, sOK, addFile, path, rewriteExisting))

\* the Folder that CreateFolder returns
CreatedFolder(created) ==
    [kind |-> "folder",
     base |-> [Name         |-> created.NewName,
               Size         |-> 0,
               FullPath     |-> created.NewPath,
               PublicLink   |-> <<>>,
               FilesCount   |-> 0,
               FoldersCount |-> 0,
               account      |-> TRUE,
               client       |-> TRUE],
     FoldersCount         |-> 0,
     FilesCount           |-> 0,
     Items                |-> NilItems,
     prevDiskUsed         |-> 0,
     lastItemsGettingTime |-> NoTime]

\* CloudClient.CreateFolder, from the outcomes of its authorization check
\* and of createFileOrFolder
CreateFolderOf(t, fullFolderPath, auth, created) ==
    IF fullFolderPath = <<>> THEN Outcome("PathNotExists", <<>>, NilV, t)
    ELSE IF auth.err # OK THEN Outcome(auth.err, auth.reqs, NilV, t)
    ELSE IF created.err # OK
    THEN Outcome(created.err, auth.reqs \o created.reqs, NilV, created.tree)
    ELSE Outcome(OK, auth.reqs \o created.reqs, CreatedFolder(created.val),
                 created.tree)

CreateFolderOp(a, t, sOK, fullFolderPath) ==
    CreateFolderOf(t, fullFolderPath, checkAuthorization(a, t, sOK),
                   createFileOrFolder(a, t, sOK, FALSE,
                                      getPathStartEndSlash(fullFolderPath, TRUE, TRUE),
                                      <<>>, 0, FALSE))

\* CloudClient.Remove: the answer of the server is not read
RemoveOf(a, t, sourceFullPath, auth, path, resp) ==
    IF sourceFullPath = <<>> THEN Outcome("PathNotExists", <<>>, NilV, t)
    ELSE IF auth.err # OK THEN Outcome(auth.err, auth.reqs, NilV, t)
    ELSE IF ~a.httpClient THEN Outcome("panic", auth.reqs, NilV, t)
    ELSE Outcome(OK, auth.reqs \o <<Req("remove", path)>>, NilV, resp.tree)

RemoveOp(a, t, sOK, sourceFullPath) ==
    RemoveOf(a, t, sourceFullPath, checkAuthorization(a, t, sOK),
             getPathStartEndSlash(sourceFullPath, TRUE, FALSE),
             SrvRemove(t, sOK, SrvHome(getPathStartEndSlash(sourceFullPath, TRUE, FALSE))))

\* the entry Rename, Copy and Move return: the resolved item at its new path
Relocated(item, newPath) ==
    EntryV([item EXCEPT !.PublicLink = <<>>,
                        !.FullPath = newPath,
                        !.Name = FilepathBase(newPath)])

\* the name Rename sends: the extension of the resolved item is appended
\* to a name that does not end with it
RenameNewName(item, name) ==
    IF FilepathExt(item.Name) # <<>>
       /\ ~HasSuffix(ToLower(name), ToLower(FilepathExt(item.Name)))
    THEN name \o FilepathExt(item.Name) ELSE name

\* CloudClient.Rename from its request on: the answer of the server
RenameSent(reqs, found, newName, resp) ==
    IF resp.body.kind # "string"
    THEN Outcome("Other", reqs \o <<Req("rename", newName)>>, NilV, resp.tree)
    ELSE Outcome(OK, reqs \o <<Req("rename", newName)>>,
                 Relocated(found.item, resp.body.str), resp.tree)

\* CloudClient.Rename, from the outcomes of its authorization check and of
\* checkUnknownItemExisting
RenameOf(a, t, sOK, sourceFullPath, name, auth, path, found) ==
    IF sourceFullPath = <<>> THEN Outcome("PathNotExists", <<>>, NilV, t)
    ELSE IF name = <<>> THEN Outcome("PathNotExists", <<>>, NilV, t)
    ELSE IF auth.err # OK THEN Outcome(auth.err, auth.reqs, NilV, t)
    ELSE IF found.err # OK THEN Outcome(found.err, auth.reqs \o found.reqs, NilV, t)
    ELSE IF ~a.httpClient THEN Outcome("panic", auth.reqs \o found.reqs, NilV, t)
    ELSE RenameSent(auth.reqs \o found.reqs, found,
                    RenameNewName(found.item, name),
                    SrvRename(t, sOK, SrvHome(path), RenameNewName(found.item, name)))

RenameOp(a, t, sOK, T, sourceFullPath, name) ==
    RenameOf(a, t, sOK, sourceFullPath, name, checkAuthorization(a, t, sOK),
             getPathStartEndSlash(sourceFullPath, TRUE, FALSE),
             checkUnknownItemExisting(a, t, sOK, T,
                 getPathStartEndSlash(sourceFullPath, TRUE, FALSE)))

\* CloudClient.moveOrCopyInternal from its request on
MoveCopySent(reqs, found, dst, move, resp) ==
    IF resp.body.kind # "string"
    THEN Outcome("Other", reqs \o <<Req(IF move THEN "move" ELSE "copy", dst)>>,
                 NilV, resp.tree)
    ELSE Outcome(OK, reqs \o <<Req(IF move THEN "move" ELSE "copy", dst)>>,
                 Relocated(found.item, resp.body.str), resp.tree)

\* CloudClient.moveOrCopyInternal, from the outcomes of its authorization
\* check, of checkUnknownItemExisting(src) and of GetFolder(dst).  GetFolder
\* answers (nil, nil) for a destination the server does not list, so its
\* error is nil then.
moveOrCopyOf(a, t, sOK, sourceFullPath, destFolderPath, move, auth, src, dst, found, dest) ==
    IF sourceFullPath = <<>> THEN Outcome("PathNotExists", <<>>, NilV, t)
    ELSE IF destFolderPath = <<>> THEN Outcome("PathNotExists", <<>>, NilV, t)
    ELSE IF auth.err # OK THEN Outcome(auth.err, auth.reqs, NilV, t)
    ELSE IF found.err # OK
    THEN Outcome(found.err, auth.reqs \o found.reqs, NilV, t)
    ELSE IF dest.err = "panic"
    THEN Outcome("panic", auth.reqs \o found.reqs \o dest.reqs, NilV, t)
    ELSE IF dest.err # OK
    THEN Outcome("PathNotExists", auth.reqs \o found.reqs \o dest.reqs, NilV, t)
    ELSE IF ~a.httpClient
    THEN Outcome("panic", auth.reqs \o found.reqs \o dest.reqs, NilV, t)
    ELSE MoveCopySent(auth.reqs \o found.reqs \o dest.reqs, found, dst, move,
                      SrvMoveCopy(t, sOK, SrvHome(src), dst, move))

moveOrCopyInternal(a, t, sOK, T, sourceFullPath, destFolderPath, move) ==
    moveOrCopyOf(a, t, sOK, sourceFullPath, destFolderPath, move,
                 checkAuthorization(a, t, sOK),
                 getPathStartEndSlash(sourceFullPath, TRUE, FALSE),
                 getPathStartEndSlash(destFolderPath, TRUE, FALSE),
                 checkUnknownItemExisting(a, t, sOK, T,
                     getPathStartEndSlash(sourceFullPath, TRUE, FALSE)),
                 GetFolder(a, t, sOK, getPathStartEndSlash(destFolderPath, TRUE, FALSE)))

\* CloudClient.publishUnpublishInternal after an unpublish request the
\* server accepted: the entry is resolved again
UnpublishedOf(reqs, after, t) ==
    Outcome(after.err, reqs \o after.reqs,
            IF after.err = OK THEN EntryV(after.item) ELSE NilV, t)

\* CloudClient.publishUnpublishInternal from its request on
PublishSent(a, sOK, T, publish, reqs, link1, found, resp) ==
    IF resp.status \in {404, 400}
    THEN Outcome(IF publish THEN "PathNotExists" ELSE "PublicLinkNotExists",
                 reqs \o <<Req(IF publish THEN "publish" ELSE "unpublish", link1)>>,
                 NilV, resp.tree)
    ELSE IF resp.body.kind # "string"
    THEN Outcome("Other",
                 reqs \o <<Req(IF publish THEN "publish" ELSE "unpublish", link1)>>,
                 NilV, resp.tree)
    ELSE IF ~publish
    THEN UnpublishedOf(reqs \o <<Req("unpublish", link1)>>,
                       checkUnknownItemExisting(a, resp.tree, sOK, T, resp.body.str),
                       resp.tree)
    ELSE Outcome(OK, reqs \o <<Req("publish", link1)>>,
                 EntryV([found.item EXCEPT
                            !.PublicLink = PublicLink \o resp.body.str]),
                 resp.tree)

\* CloudClient.publishUnpublishInternal, from the outcomes of its
\* authorization check and, for Publish, of checkUnknownItemExisting.  link1
\* is the normalised path (Publish), or the link without the first
\* occurrence of the public prefix (Unpublish).
publishUnpublishOf(a, t, sOK, T, link, publish, auth, link1, found) ==
    IF link = <<>> THEN Outcome("PathNotExists", <<>>, NilV, t)
    ELSE IF auth.err # OK THEN Outcome(auth.err, auth.reqs, NilV, t)
    ELSE IF publish /\ found.err # OK
    THEN Outcome(found.err, auth.reqs \o found.reqs, NilV, t)
    ELSE IF ~a.httpClient
    THEN Outcome("panic", auth.reqs \o (IF publish THEN found.reqs ELSE <<>>), NilV, t)
    ELSE PublishSent(a, sOK, T, publish,
                     auth.reqs \o (IF publish THEN found.reqs ELSE <<>>),
                     link1, found,
                     IF publish THEN SrvPublish(t, sOK, SrvHome(link1))
                     ELSE SrvUnpublish(t, sOK, link1))

publishUnpublishInternal(a, t, sOK, T, link, publish) ==
    publishUnpublishOf(a, t, sOK, T, link, publish, checkAuthorization(a, t, sOK),
                       IF publish THEN getPathStartEndSlash(link, TRUE, FALSE)
                       ELSE RemoveFirst(link, PublicLink),
                       checkUnknownItemExisting(a, t, sOK, T,
                           getPathStartEndSlash(link, TRUE, FALSE)))

-----------------------------------------------------------------------------
(* CloudClient: transfers.  A request made with the client's context is    *)
(* in flight between the step that issues it and the step in which Do      *)
(* returns; Do returns the context's error once the context is done, and   *)
(* does not send a request whose context is already done.                  *)

\* the upload ceilings of UploadFileFromStream, 2048 * 1024 * 1024 and
\* 32768 * 1024 * 1024 bytes.  The length of a content is counted in units
\* of 1024 * 1024 bytes, so that the ceilings are integers TLC can hold.
SizeLimit2GB == 2048
SizeLimit32GB == 32768

\* GET /api/v2/dispatcher: the shard lists the client reads
SrvShards(sOK) ==
    IF sOK THEN [Upload |-> <<"u">>, Get |-> <<"g">>]
    ELSE [Upload |-> <<>>, Get |-> <<>>]

\* CloudClient.getShardsInfo, from the outcome of its authorization check
getShardsInfoOf(a, sOK, auth) ==
    IF auth.err # OK THEN [err |-> auth.err, reqs |-> auth.reqs, shards |-> NilV]
    ELSE IF ~a.httpClient
    THEN [err |-> "panic", reqs |-> auth.reqs, shards |-> NilV]
    ELSE [err |-> OK, reqs |-> auth.reqs \o <<Req("dispatcher", <<>>)>>,
          shards |-> SrvShards(sOK)]

getShardsInfo(a, t, sOK) == getShardsInfoOf(a, sOK, checkAuthorization(a, t, sOK))

\* a call that has returned, in the step that started it
Ended(err, reqs) == [done |-> TRUE, err |-> err, reqs |-> reqs]

\* CloudClient.UploadFileFromStream from the shard lookup to the PUT request
UploadSend(ctxDone, reqs, path, sh) ==
    IF sh.err # OK THEN Ended(sh.err, reqs \o sh.reqs)
    ELSE IF Len(sh.shards.Upload) = 0 THEN Ended("Other", reqs \o sh.reqs)
    ELSE IF ctxDone THEN Ended("Canceled", reqs \o sh.reqs)
    ELSE [done |-> FALSE, err |-> OK,
          reqs |-> reqs \o sh.reqs \o <<Req("put", sh.shards.Upload)>>,
          path |-> path]

\* an upload that turns away the content of the length of the ceiling too
UploadBeginStrict(a, t, sOK, ctxDone, destFileName, size, auth, dst, dest) ==
    IF auth.err # OK THEN Ended(auth.err, auth.reqs)
    ELSE IF destFileName = <<>> THEN Ended("PathNotExists", auth.reqs)
    ELSE IF size = 0 THEN Ended("PathNotExists", auth.reqs)
    ELSE IF dst = <<>> THEN Ended("PathNotExists", auth.reqs)
    ELSE IF dest.err = "panic" THEN Ended("panic", auth.reqs \o dest.reqs)
    ELSE IF dest.err # OK THEN Ended("PathNotExists", auth.reqs \o dest.reqs)
    ELSE IF size >= (IF Has2GBUploadSizeLimit(a) THEN SizeLimit2GB ELSE SizeLimit32GB)
    THEN Ended("UploadingSizeLimit", auth.reqs \o dest.reqs)
    ELSE UploadSend(ctxDone, auth.reqs \o dest.reqs, dst \o destFileName,
                    getShardsInfo(a, t, sOK))

\* CloudClient.UploadFileFromStream up to the PUT request: either the call
\* ends (done), or the PUT is in flight.  GetFolder answers (nil, nil) for
\* a destination the server does not list, so its error is nil then.
UploadBeginOf(a, t, sOK, ctxDone, destFileName, size, auth, dst, dest) ==
    IF auth.err # OK THEN Ended(auth.err, auth.reqs)
    ELSE IF destFileName = <<>> THEN Ended("PathNotExists", auth.reqs)
    ELSE IF size = 0 THEN Ended("PathNotExists", auth.reqs)
    ELSE IF dst = <<>> THEN Ended("PathNotExists", auth.reqs)
    ELSE IF dest.err = "panic" THEN Ended("panic", auth.reqs \o dest.reqs)
    ELSE IF dest.err # OK THEN Ended("PathNotExists", auth.reqs \o dest.reqs)
    ELSE IF size > (IF Has2GBUploadSizeLimit(a) THEN SizeLimit2GB ELSE SizeLimit32GB)
    THEN Ended("UploadingSizeLimit", auth.reqs \o dest.reqs)
    ELSE UploadSend(ctxDone, auth.reqs \o dest.reqs, dst \o destFileName,
                    getShardsInfo(a, t, sOK))

UploadBegin(a, t, sOK, ctxDone, destFileName, size, destFolderPath) ==
    UploadBeginOf(a, t, sOK, ctxDone, destFileName, size,
                  checkAuthorization(a, t, sOK),
                  getPathStartEndSlash(destFolderPath, TRUE, TRUE),
                  GetFolder(a, t, sOK, getPathStartEndSlash(destFolderPath, TRUE, TRUE)))

\* the File that UploadFileFromStream returns
UploadedFile(created, hash, size) ==
    [kind |-> "file",
     base |-> [Name         |-> created.NewName,
               Size         |-> size,
               FullPath     |-> created.NewPath,
               PublicLink   |-> <<>>,
               FilesCount   |-> 0,
               FoldersCount |-> 0,
               account      |-> TRUE,
               client       |-> TRUE],
     Hash |-> hash]

\* the hash the upload shard answers a PUT request with
UploadHash == <<"#">>

\* CloudClient.UploadFileFromStream from the return of the PUT request
UploadEndOf(t, sOK, ctxDone, x, created) ==
    IF ctxDone THEN Outcome("Canceled", x.reqs, NilV, t)
    ELSE IF ~sOK THEN Outcome("Other", x.reqs, NilV, t)
    ELSE IF created.err # OK
    THEN Outcome(created.err, x.reqs \o created.reqs, NilV, created.tree)
    ELSE Outcome(OK, x.reqs \o created.reqs,
                 UploadedFile(created.val, UploadHash, x.size), created.tree)

UploadEnd(a, t, sOK, ctxDone, x) ==
    UploadEndOf(t, sOK, ctxDone, x,
                createFileOrFolder(a, t, sOK, TRUE, x.path, UploadHash, x.size, FALSE))

\* the answers the `get` shard may give for a file: not found, too large,
\* or the content with its length (-1 when the length is unknown)
SrvGetResponses(t, path) ==
    IF SrvPresent(t, path) /\ path \in Homes \ FolderHomes
    THEN {[status |-> 200, ContentLength |-> 1],
          [status |-> 200, ContentLength |-> -1],
          [status |-> 422, ContentLength |-> 0],
          [status |-> 500, ContentLength |-> 2]}
    ELSE {[status |-> 404, ContentLength |-> 0]}

\* CloudClient.DownloadFile up to the GET request
DownloadBeginOf(ctxDone, sourceFilePath, auth, sh) ==
    IF sourceFilePath = <<>> THEN Ended("PathNotExists", <<>>)
    ELSE IF auth.err # OK THEN Ended(auth.err, auth.reqs)
    ELSE IF sh.err # OK THEN Ended(sh.err, auth.reqs \o sh.reqs)
    ELSE IF Len(sh.shards.Get) = 0 THEN Ended("Other", auth.reqs \o sh.reqs)
    ELSE IF ctxDone THEN Ended("Canceled", auth.reqs \o sh.reqs)
    ELSE [done |-> FALSE, err |-> OK,
          reqs |-> auth.reqs \o sh.reqs
                   \o <<Req("get", sh.shards.Get \o TrimPrefix(sourceFilePath, <<SL>>))>>,
          path |-> TrimPrefix(sourceFilePath, <<SL>>)]

DownloadBegin(a, t, sOK, ctxDone, sourceFilePath) ==
    DownloadBeginOf(ctxDone, sourceFilePath, checkAuthorization(a, t, sOK),
                    getShardsInfo(a, t, sOK))

\* the stream and length DownloadFile returns
StreamV(open, length) == [kind |-> "stream", open |-> open, length |-> length]

\* a response body that DownloadFile never closes
DownloadBodyLeftOpen(ctxDone, resp) == IF ctxDone THEN "none" ELSE "open"

\* the body of the response when DownloadFile returns: there is none when
\* the request failed, it is closed for 422 and 404, and otherwise it is
\* the stream handed to the caller
DownloadBody(ctxDone, resp) ==
    IF ctxDone THEN "none"
    ELSE IF resp.status = 422 THEN "closed"
    ELSE IF resp.status = 404 THEN "closed"
    ELSE "open"

\* a return of the GET request that does not look at the context
DownloadEndUncancelled(t, ctxDone, x, resp) ==
    IF resp.status = 422 THEN Outcome("DownloadingSizeLimit", x.reqs, NilV, t)
    ELSE IF resp.status = 404 THEN Outcome("PathNotExists", x.reqs, NilV, t)
    ELSE Outcome(OK, x.reqs,
                 StreamV(TRUE, IF resp.ContentLength < 0 THEN 0
                               ELSE resp.ContentLength), t)

\* CloudClient.DownloadFile from the return of the GET request
DownloadEnd(t, ctxDone, x, resp) ==
    IF ctxDone THEN Outcome("Canceled", x.reqs, NilV, t)
    ELSE IF resp.status = 422 THEN Outcome("DownloadingSizeLimit", x.reqs, NilV, t)
    ELSE IF resp.status = 404 THEN Outcome("PathNotExists", x.reqs, NilV, t)
    ELSE Outcome(OK, x.reqs,
                 StreamV(TRUE, IF resp.ContentLength < 0 THEN 0
                               ELSE resp.ContentLength), t)

-----------------------------------------------------------------------------
(* CloudClient: ZIP archives *)

Digit(n) == CASE n = 0 -> "0" [] n = 1 -> "1" [] n = 2 -> "2" [] n = 3 -> "3"
              [] n = 4 -> "4" [] n = 5 -> "5" [] n = 6 -> "6" [] n = 7 -> "7"
              [] n = 8 -> "8" [] n = 9 -> "9"

\* fmt.Sprintf("%d", n) for n >= 0
RECURSIVE FormatInt(_)
FormatInt(n) == IF n < 10 THEN <<Digit(n)>> ELSE FormatInt(n \div 10) \o <<Digit(n % 10)>>

DotZip == <<".", "z", "i", "p">>

\* a scan that takes every parent for the common one
CommonPathScanNone(paths, commonPath, allHasCommonPath) ==
    [commonPath |-> commonPath, all |-> TRUE]

\* the loop of GetDirectLinkZIPArchive over the paths: the common parent
\* (the first parent seen, "" standing for none yet) and whether every
\* parent equalled it
RECURSIVE CommonPathScan(_, _, _)
CommonPathScan(paths, commonPath, allHasCommonPath) ==
    IF paths = <<>> THEN [commonPath |-> commonPath, all |-> allHasCommonPath]
    ELSE LET parentPath == getParentCloudPath(Head(paths))
             common     == IF commonPath = <<>> THEN parentPath ELSE commonPath
         IN  CommonPathScan(Tail(paths), common,
                            allHasCommonPath /\ (common = parentPath))

\* POST /api/v2/zip: a direct link, or the status for an archive too large
SrvZipResponses(sOK) ==
    IF ~sOK THEN {[status |-> 403, body |-> ErrBody]}
    ELSE {[status |-> 200, body |-> StrBody(<<"z">>)],
          [status |-> 422, body |-> ErrBody]}

\* the name of the archive: the time when none is given, and the suffix
ZipName(T, destZipArchiveName) ==
    IF ~HasSuffix(ToLower(IF destZipArchiveName = <<>> THEN FormatInt(T)
                          ELSE destZipArchiveName), DotZip)
    THEN (IF destZipArchiveName = <<>> THEN FormatInt(T) ELSE destZipArchiveName)
         \o DotZip
    ELSE destZipArchiveName

\* the request of GetDirectLinkZIPArchive
ZipReq(T, paths, destZipArchiveName) ==
    [k |-> "zip",
     p |-> [i \in 1..Len(paths) |-> getPathStartEndSlash(paths[i], TRUE, FALSE)],
     name |-> ZipName(T, destZipArchiveName)]

\* CloudClient.GetDirectLinkZIPArchive, from the outcome of its
\* authorization check and the answer of the server
GetDirectLinkZIPArchiveOf(a, t, T, paths, destZipArchiveName, auth, resp) ==
    IF paths = <<>> THEN Outcome("PathNotExists", <<>>, NilV, t)
    ELSE IF \E i \in 1..Len(paths) : paths[i] = <<>> \/ paths[i] = Root
    THEN Outcome("PathNotExists", <<>>, NilV, t)
    ELSE IF auth.err # OK THEN Outcome(auth.err, auth.reqs, NilV, t)
    ELSE IF ~CommonPathScan(paths, <<>>, TRUE).all
    THEN Outcome("DifferentParentPaths", auth.reqs, NilV, t)
    ELSE IF ~a.httpClient THEN Outcome("panic", auth.reqs, NilV, t)
    ELSE IF resp.status = 422
    THEN Outcome("DownloadingSizeLimit",
                 auth.reqs \o <<ZipReq(T, paths, destZipArchiveName)>>, NilV, t)
    ELSE IF resp.body.kind # "string"
    THEN Outcome("Other", auth.reqs \o <<ZipReq(T, paths, destZipArchiveName)>>,
                 NilV, t)
    ELSE Outcome(OK, auth.reqs \o <<ZipReq(T, paths, destZipArchiveName)>>,
                 [kind |-> "link", str |-> resp.body.str], t)

GetDirectLinkZIPArchiveOp(a, t, sOK, T, paths, destZipArchiveName, resp) ==
    GetDirectLinkZIPArchiveOf(a, t, T, paths, destZipArchiveName,
                              checkAuthorization(a, t, sOK), resp)

\* CloudClient.DownloadItemsAsZIPArchive up to the GET request
ZipBeginOf(ctxDone, paths, auth, link) ==
    IF auth.err # OK THEN Ended(auth.err, auth.reqs)
    ELSE IF link.err # OK THEN Ended(link.err, auth.reqs \o link.reqs)
    ELSE IF ctxDone THEN Ended("Canceled", auth.reqs \o link.reqs)
    ELSE [done |-> FALSE, err |-> OK,
          reqs |-> auth.reqs \o link.reqs \o <<Req("get", link.val.str)>>,
          paths |-> paths]

ZipBegin(a, t, sOK, T, ctxDone, paths, resp) ==
    ZipBeginOf(ctxDone, paths, checkAuthorization(a, t, sOK),
               GetDirectLinkZIPArchiveOp(a, t, sOK, T, paths, <<>>, resp))

\* the sizes of the handles whose FullPath is path, summed
RECURSIVE SumSizesAt(_, _)
SumSizesAt(hs, path) ==
    IF hs = <<>> THEN 0
    ELSE (IF Head(hs).base.FullPath = path THEN Head(hs).base.Size ELSE 0)
         + SumSizesAt(Tail(hs), path)

RECURSIVE SumOverPaths(_, _, _)
SumOverPaths(paths, files, folders) ==
    IF paths = <<>> THEN 0
    ELSE SumSizesAt(files, Head(paths)) + SumSizesAt(folders, Head(paths))
         + SumOverPaths(Tail(paths), files, folders)

\* the length DownloadItemsAsZIPArchive reports, from the listings of the
\* folder it asked for
ZipLengthOf(t, paths, reqs, files, folders) ==
    IF files.panic \/ folders.panic
    THEN Outcome("panic", reqs \o files.reqs \o folders.reqs, NilV, t)
    ELSE Outcome(OK, reqs \o files.reqs \o folders.reqs,
                 StreamV(TRUE, SumOverPaths(paths, files.out, folders.out)), t)

ZipListedOf(a, t, sOK, T, paths, reqs, files) ==
    ZipLengthOf(t, paths, reqs, files, FolderGetFolders(files.f, a, t, sOK, T))

\* CloudClient.DownloadItemsAsZIPArchive from the return of the GET request:
\* the folder listed for the length is the one named by the first path
ZipEndOf(a, t, sOK, T, ctxDone, x, g) ==
    IF ctxDone THEN Outcome("Canceled", x.reqs, NilV, t)
    ELSE IF g.err = "panic" THEN Outcome("panic", x.reqs \o g.reqs, NilV, t)
    ELSE IF g.err # OK \/ g.folder = NilV
    THEN Outcome(OK, x.reqs \o g.reqs, StreamV(TRUE, 0), t)
    ELSE ZipListedOf(a, t, sOK, T, x.paths, x.reqs \o g.reqs,
                     FolderGetFiles(g.folder, a, t, sOK, T))

ZipEnd(a, t, sOK, T, ctxDone, x) ==
    ZipEndOf(a, t, sOK, T, ctxDone, x, GetFolder(a, t, sOK, x.paths[1]))

-----------------------------------------------------------------------------
(* Account.Login *)

\* the tariffs a server may report as active
TariffSets == {<<"ZERO">>, <<"ZERO", "W128G">>}

\* Account.Login: the account afterwards and the error.  The HTTP client is
\* created before the first request; the token and the tariffs are stored
\* when the server accepts the credentials.
LoginOf(a, accept, tariffs, c) ==
    IF c.err # OK THEN [err |-> c.err, account |-> a]
    ELSE IF ~accept THEN [err |-> "Other", account |-> [a EXCEPT !.httpClient = TRUE]]
    ELSE [err |-> OK,
          account |-> [a EXCEPT !.httpClient = TRUE,
                                !.authToken = "tok",
                                !.ActivatedTariffs = tariffs]]

LoginOp(a, accept, tariffs) ==
    LoginOf(a, accept, tariffs, AccountCheckAuthorizationInternal(a, <<>>, TRUE, TRUE))

-----------------------------------------------------------------------------
(* The state machine.  A caller's call of an operation is one step, except *)
(* a transfer, which is in flight between two steps.                       *)

Callers == {1, 2}

Idle == [st |-> "idle"]

\* the record of the last call that returned
Result(op, args, o) ==
    [op |-> op, args |-> args, err |-> o.err, reqs |-> o.reqs, val |-> o.val,
     at |-> now]

NoResult ==
    [op |-> "none", args |-> <<>>, err |-> OK, reqs |-> <<>>, val |-> NilV,
     at |-> 0]

\* CloudClient.ProgressChangedEvent is nil: nobody is notified
NoProgress == [subscribed |-> FALSE, started |-> 0, pending |-> <<>>, log |-> <<>>]

\* nothing observed of the Folder held
NoHist == [at |-> NoTime, used |-> 0, prev |-> NilV]

\* the trees a run may start from
InitTrees ==
    {t \in [Homes -> EntryStates] :
        /\ TreeOK(t)
        /\ \A h \in Homes : t[h] = "shared" => h \in Publishable
        /\ t[pB] = "absent"
        /\ t[pCT] = "absent"}

Init ==
    /\ account \in {NewAccount(e, "p") : e \in {"", "u"}}
    /\ cancelled = FALSE
    /\ tree \in InitTrees
    /\ sessionOK = FALSE
    /\ now = 0
    /\ fld = NilV
    /\ hist = NoHist
    /\ xfer = [c \in Callers |-> Idle]
    /\ progress = NoProgress
    /\ res = NoResult

\* the caller of the sequential operations is not inside a transfer
Ready == xfer[1] = Idle

\* the call has returned with outcome o
Returned(op, args, o) == res' = Result(op, args, o)

Login(accept, tariffs) ==
    /\ Ready
    /\ account' = LoginOp(account, accept, tariffs).account
    /\ sessionOK' = (sessionOK \/ LoginOp(account, accept, tariffs).err = OK)
    /\ Returned("Login", <<>>,
                [err |-> LoginOp(account, accept, tariffs).err,
                 reqs |-> <<>>, val |-> NilV])
    /\ UNCHANGED <<cancelled, tree, now, fld, hist, xfer, progress>>

\* the server stops accepting the session
SessionExpire ==
    /\ sessionOK
    /\ sessionOK' = FALSE
    /\ UNCHANGED <<account, cancelled, tree, now, fld, hist, xfer, res, progress>>

\* a call of a sequential operation with outcome o
Call(op, args, o) ==
    /\ Ready
    /\ Returned(op, args, o)
    /\ tree' = o.tree
    /\ UNCHANGED <<account, cancelled, sessionOK, now, fld, hist, xfer, progress>>

\* the outcome of GetFolder as that of an operation
FolderOutcome(g, t) == Outcome(g.err, g.reqs, g.folder, t)

GetFolderAct(p) ==
    Call("GetFolder", <<p>>, FolderOutcome(GetFolder(account, tree, sessionOK, p), tree))

CreateFolderAct(p) ==
    Call("CreateFolder", <<p>>, CreateFolderOp(account, tree, sessionOK, p))

RemoveAct(p) ==
    Call("Remove", <<p>>, RemoveOp(account, tree, sessionOK, p))

RenameAct(p, name) ==
    Call("Rename", <<p, name>>, RenameOp(account, tree, sessionOK, now, p, name))

CopyAct(p, dest) ==
    Call("Copy", <<p, dest>>,
         moveOrCopyInternal(account, tree, sessionOK, now, p, dest, FALSE))

MoveAct(p, dest) ==
    Call("Move", <<p, dest>>,
         moveOrCopyInternal(account, tree, sessionOK, now, p, dest, TRUE))

PublishAct(p) ==
    Call("Publish", <<p>>,
         publishUnpublishInternal(account, tree, sessionOK, now, p, TRUE))

UnpublishAct(link) ==
    Call("Unpublish", <<link>>,
         publishUnpublishInternal(account, tree, sessionOK, now, link, FALSE))

GetDirectLinkZIPArchiveAct(paths, name) ==
    \E resp \in SrvZipResponses(sessionOK) :
        Call("GetDirectLinkZIPArchive", <<paths, name>>,
             GetDirectLinkZIPArchiveOp(account, tree, sessionOK, now, paths, name, resp))

\* a notification given to ProgressChangedEvent; upload numbers the call
\* of UploadFileFromStream that made it
Notification(upload, pct, total, inProgress) ==
    [upload |-> upload, ProgressPercentage |-> pct, TotalBytes |-> total, BytesInProgress |-> inProgress]

\* the upload reached the line after http.NewRequestWithContext: the
\* request is built whatever the state of the context, and the context is
\* looked at only by Do
UploadSpawns(b) == ~b.done \/ b.err = "Canceled"

\* `go func() { c.ProgressChangedEvent(c, 0%) }()` of an upload of size
\* bytes: with a subscriber, a goroutine that will deliver the 0%
\* notification is started and the upload goes on without waiting for it
ProgressSpawned(p, size) ==
    IF ~p.subscribed THEN p
    ELSE [p EXCEPT !.started = p.started + 1,
                   !.pending = Append(p.pending, Notification(p.started + 1, 0, size, 0))]

\* the 100% notification, delivered by the uploading goroutine itself
\* after createFileOrFolder succeeded
ProgressDone(p, upload, size) ==
    IF ~p.subscribed THEN p
    ELSE [p EXCEPT !.log = Append(p.log, Notification(upload, 100, size, size))]

\* the scheduler runs one of the 0% goroutines
ProgressDeliver(i) ==
    /\ i \in 1..Len(progress.pending)
    /\ progress' = [progress EXCEPT
                       !.pending = [j \in 1..(Len(progress.pending) - 1) |->
                                       IF j < i THEN progress.pending[j] ELSE progress.pending[j + 1]],
                       !.log = Append(progress.log, progress.pending[i])]
    /\ UNCHANGED <<account, cancelled, tree, sessionOK, now, fld, hist, xfer, res>>

\* UploadFileFromStream by caller c: the call ends at once, or its PUT
\* request goes in flight
UploadStarted(c, args, b) ==
    /\ xfer[c] = Idle
    /\ IF b.done
       THEN /\ Returned("Upload", args, [err |-> b.err, reqs |-> b.reqs, val |-> NilV])
            /\ xfer' = xfer
       ELSE /\ xfer' = [xfer EXCEPT ![c] =
                           [st |-> "put", reqs |-> b.reqs, path |-> b.path,
                            size |-> args[2], args |-> args,
                            upload |-> ProgressSpawned(progress, args[2]).started]]
            /\ res' = res
    /\ progress' = IF UploadSpawns(b) THEN ProgressSpawned(progress, args[2]) ELSE progress
    /\ UNCHANGED <<account, cancelled, tree, sessionOK, now, fld, hist>>

UploadStart(c, name, size, dest) ==
    UploadStarted(c, <<name, size, dest>>,
                  UploadBegin(account, tree, sessionOK, cancelled, name, size, dest))

\* the PUT request of caller c returns and the call runs to its end
UploadReturned(c, args, o) ==
    /\ Returned("Upload", args, o)
    /\ tree' = o.tree
    /\ xfer' = [xfer EXCEPT ![c] = Idle]
    /\ progress' = IF o.err = OK THEN ProgressDone(progress, xfer[c].upload, xfer[c].size)
                   ELSE progress
    /\ UNCHANGED <<account, cancelled, sessionOK, now, fld, hist>>

UploadFinished(c, o) == UploadReturned(c, xfer[c].args, o)

UploadFinish(c) ==
    /\ xfer[c].st = "put"
    /\ UploadFinished(c, UploadEnd(account, tree, sessionOK, cancelled, xfer[c]))

\* the PUT request of caller c returns, and the caller has not yet built
\* the create-file request: a failed PUT ends the call
UploadPutReturn(c) ==
    /\ xfer[c].st = "put"
    /\ IF cancelled \/ ~sessionOK
       THEN UploadFinished(c, UploadEnd(account, tree, sessionOK, cancelled, xfer[c]))
       ELSE /\ xfer' = [xfer EXCEPT ![c].st = "add"]
            /\ UNCHANGED <<account, cancelled, tree, sessionOK, now, fld, hist, progress, res>>

\* createFileOrFolder of caller c after its PUT request succeeded: its
\* request is built without the context of the client.  The call is
\* recorded with the state of the context at this moment.
UploadCreate(c) ==
    /\ xfer[c].st = "add"
    /\ UploadReturned(c, xfer[c].args \o <<cancelled>>, UploadEndOf(tree, TRUE, FALSE, xfer[c],
                                     createFileOrFolder(account, tree, sessionOK, TRUE,
                                                        xfer[c].path, UploadHash,
                                                        xfer[c].size, FALSE)))

\* DownloadFile by caller c
DownloadStarted(c, p, b) ==
    /\ xfer[c] = Idle
    /\ IF b.done
       THEN /\ Returned("Download", <<p>>, [err |-> b.err, reqs |-> b.reqs, val |-> NilV])
            /\ xfer' = xfer
       ELSE /\ xfer' = [xfer EXCEPT ![c] =
                           [st |-> "get", reqs |-> b.reqs, path |-> b.path,
                            args |-> <<p>>]]
            /\ res' = res
    /\ UNCHANGED <<account, cancelled, tree, sessionOK, now, fld, hist, progress>>

DownloadStart(c, p) ==
    DownloadStarted(c, p, DownloadBegin(account, tree, sessionOK, cancelled, p))

\* the GET request of caller c returns with one of the answers of the shard
DownloadFinish(c) ==
    /\ xfer[c].st = "get"
    /\ \E resp \in SrvGetResponses(tree, <<SL>> \o xfer[c].path) :
          Returned("Download", xfer[c].args \o <<resp, DownloadBody(cancelled, resp)>>,
                   DownloadEnd(tree, cancelled, xfer[c], resp))
    /\ xfer' = [xfer EXCEPT ![c] = Idle]
    /\ UNCHANGED <<account, cancelled, tree, sessionOK, now, fld, hist, progress>>

\* DownloadItemsAsZIPArchive by caller c
ZipStarted(c, paths, b) ==
    /\ IF b.done
       THEN /\ Returned("Zip", <<paths>>, [err |-> b.err, reqs |-> b.reqs, val |-> NilV])
            /\ xfer' = xfer
       ELSE /\ xfer' = [xfer EXCEPT ![c] =
                           [st |-> "zip", reqs |-> b.reqs, paths |-> b.paths,
                            args |-> <<paths>>]]
            /\ res' = res
    /\ UNCHANGED <<account, cancelled, tree, sessionOK, now, fld, hist, progress>>

ZipStart(c, paths) ==
    /\ xfer[c] = Idle
    /\ \E resp \in SrvZipResponses(sessionOK) :
          ZipStarted(c, paths,
                     ZipBegin(account, tree, sessionOK, now, cancelled, paths, resp))

ZipFinish(c) ==
    /\ xfer[c].st = "zip"
    /\ Returned("Zip", xfer[c].args,
                ZipEnd(account, tree, sessionOK, now, cancelled, xfer[c]))
    /\ xfer' = [xfer EXCEPT ![c] = Idle]
    /\ UNCHANGED <<account, cancelled, tree, sessionOK, now, fld, hist, progress>>

\* CloudClient.AbortAllAsyncTasks: the cancel function of the context
AbortAllAsyncTasks ==
    /\ ~cancelled
    /\ cancelled' = TRUE
    /\ UNCHANGED <<account, tree, sessionOK, now, fld, hist, xfer, res, progress>>

-----------------------------------------------------------------------------
(* The sequential operations of the client, called by one caller *)

\* the arguments the callers pass
ArgPaths == {<<>>, pA, pF, pAF, pBF}
ArgFolders == {<<>>, Root, pA, pB}
ArgDests == {<<>>, pA, pB}
ArgNames == {<<>>, <<"b">>}
ArgLinks == {<<>>, PublicLink, PublicLink \o WeblinkOf(pF), WeblinkOf(pA)}
ArgSizes == {0, 1, SizeLimit2GB, SizeLimit2GB + 1, SizeLimit32GB, SizeLimit32GB + 1}
ArgZips == {<<>>, <<pF>>, <<pA, pAF>>}
ArgLinkZips == ArgZips \cup {<<fName, pA>>}

Next ==
    \/ \E accept \in BOOLEAN : Login(accept, <<"ZERO">>)
    \/ SessionExpire
    \/ \E p \in ArgFolders : GetFolderAct(p)
    \/ \E p \in ArgDests : CreateFolderAct(p)
    \/ \E p \in ArgPaths : RemoveAct(p)
    \/ \E p \in ArgPaths, n \in ArgNames : RenameAct(p, n)
    \/ \E p \in ArgPaths, d \in ArgDests : CopyAct(p, d)
    \/ \E p \in ArgPaths, d \in ArgDests : MoveAct(p, d)
    \/ \E p \in ArgPaths : PublishAct(p)
    \/ \E l \in ArgLinks : UnpublishAct(l)
    \/ \E ps \in ArgLinkZips : GetDirectLinkZIPArchiveAct(ps, <<>>)

Spec == Init /\ [][Next]_vars

-----------------------------------------------------------------------------
(* Transfers of two callers, and the cancellation of the client's context *)

\* no entry is published at the start: publication plays no part in a
\* transfer
InitXfer ==
    /\ Init
    /\ \A h \in Homes : tree[h] # "shared"

\* caller 1 uploads and downloads archives, caller 2 downloads files
NextXfer ==
    \/ \E tariffs \in TariffSets : Login(TRUE, tariffs)
    \/ AbortAllAsyncTasks
    \/ \E n \in {<<>>, fName}, z \in ArgSizes, d \in ArgFolders :
          UploadStart(1, n, z, d)
    \/ UploadFinish(1)
    \/ \E p \in {<<>>, pF, pAF} : DownloadStart(2, p)
    \/ DownloadFinish(2)
    \/ \E ps \in ArgZips : ZipStart(1, ps)
    \/ ZipFinish(1)

SpecXfer == InitXfer /\ [][NextXfer]_vars

-----------------------------------------------------------------------------
(* A Folder handle and its listing cache, while time passes and another    *)
(* client of the account changes the tree                                  *)

\* the account after NewCloudClientWithCredentials
LoggedIn == LoginOp(NewAccount("u", "p"), TRUE, <<"ZERO">>).account

InitCache ==
    /\ account = LoggedIn
    /\ cancelled = FALSE
    /\ tree \in InitTrees
    /\ sessionOK = TRUE
    /\ now = 0
    /\ fld = NilV
    /\ hist = NoHist
    /\ xfer = [c \in Callers |-> Idle]
    /\ progress = NoProgress
    /\ res = NoResult

Tick ==
    /\ now < MaxTime
    /\ now' = now + 1
    /\ UNCHANGED <<account, cancelled, tree, sessionOK, fld, hist, xfer, res, progress>>

\* the number of listing requests among reqs
ListingReqs(reqs) == Cardinality({i \in 1..Len(reqs) : reqs[i].k = "folder"})

AccessOps == {"GetFiles", "GetFolders"}

\* the last call, when it was a listing access on the Folder held
LastAccess ==
    IF res.op \in AccessOps
    THEN [kind |-> "access", at |-> res.at, n |-> ListingReqs(res.reqs),
          held |-> ~fld.Items.nil]
    ELSE NilV

\* the caller keeps the Folder that GetFolder returns
Opened(p, g) ==
    /\ Returned("GetFolder", <<p>>, FolderOutcome(g, tree))
    /\ fld' = g.folder
    /\ hist' = IF g.folder # NilV
               THEN [at |-> now, used |-> SrvUsed(tree) * MB, prev |-> NilV]
               ELSE NoHist
    /\ UNCHANGED <<account, cancelled, tree, sessionOK, now, xfer, progress>>

OpenFolder(p) == Opened(p, GetFolder(account, tree, sessionOK, p))

\* a list of handles, as a value returned
ListV(hs) == [kind |-> "list", items |-> hs]

\* the caller keeps one of the Folders that GetFolders returned
TakeSubfolder(i) ==
    /\ res.op = "GetFolders"
    /\ res.err = OK
    /\ i \in 1..Len(res.val.items)
    /\ fld' = res.val.items[i]
    /\ hist' = NoHist
    /\ res' = NoResult
    /\ UNCHANGED <<account, cancelled, tree, sessionOK, now, xfer, progress>>

\* a listing access on the Folder held, with result u
Accessed(op, u) ==
    /\ Returned(op, <<>>, [err  |-> IF u.panic THEN "panic" ELSE OK,
                           reqs |-> u.reqs,
                           val  |-> ListV(u.out)])
    /\ fld' = u.f
    /\ hist' = IF u.fetched
               THEN [at |-> now, used |-> SrvUsed(tree) * MB, prev |-> LastAccess]
               ELSE [hist EXCEPT !.prev = LastAccess]
    /\ UNCHANGED <<account, cancelled, tree, sessionOK, now, xfer, progress>>

FolderGetFilesAct ==
    /\ fld # NilV
    /\ Accessed("GetFiles", FolderGetFiles(fld, account, tree, sessionOK, now))

FolderGetFoldersAct ==
    /\ fld # NilV
    /\ Accessed("GetFolders", FolderGetFolders(fld, account, tree, sessionOK, now))

\* Folder.Publish and Folder.Unpublish with outcome o of the client's call:
\* the handle takes the link of the result
Linked(op, o) ==
    /\ Returned(op, <<>>,
                [err  |-> o.err, reqs |-> o.reqs,
                 val  |-> IF o.err = OK
                          THEN [fld EXCEPT !.base.PublicLink = o.val.base.PublicLink]
                          ELSE NilV])
    /\ fld' = IF o.err = OK
              THEN [fld EXCEPT !.base.PublicLink = o.val.base.PublicLink]
              ELSE fld
    /\ tree' = o.tree
    /\ UNCHANGED <<account, cancelled, sessionOK, now, hist, xfer, progress>>

FolderPublishAct ==
    /\ fld # NilV
    /\ Linked("Folder.Publish",
              publishUnpublishInternal(account, tree, sessionOK, now,
                                       fld.base.FullPath, TRUE))

FolderUnpublishAct ==
    /\ fld # NilV
    /\ fld.base.PublicLink # <<>>
    /\ Linked("Folder.Unpublish",
              publishUnpublishInternal(account, tree, sessionOK, now,
                                       fld.base.PublicLink, FALSE))

\* another client of the account removes the entry h, or creates it
EnvChange(h) ==
    /\ tree' = IF tree[h] # "absent" THEN SrvRemove(tree, TRUE, h).tree
               ELSE SrvAdd(tree, TRUE, h \notin FolderHomes, h).tree
    /\ UNCHANGED <<account, cancelled, sessionOK, now, fld, hist, xfer, res, progress>>

NextCache ==
    \/ Tick
    \/ OpenFolder(Root)
    \/ TakeSubfolder(1)
    \/ FolderGetFilesAct
    \/ FolderGetFoldersAct
    \/ FolderPublishAct
    \/ FolderUnpublishAct
    \/ \E h \in {pA, pF} : EnvChange(h)

SpecCache == InitCache /\ [][NextCache]_vars

-----------------------------------------------------------------------------
(* Properties *)

\* the account passes every check of Account.checkAuthorization: email,
\* password and token are set, and the server accepts the disk-usage probe
Authorized ==
    /\ account.Email # ""
    /\ account.Password # ""
    /\ account.authToken # ""
    /\ sessionOK

ClientOps == {"GetFolder", "CreateFolder", "Remove", "Rename", "Copy", "Move",
              "Publish", "Unpublish", "GetDirectLinkZIPArchive"}

\* a call of one of ops returns in this step
Returns(ops) == res' # res /\ res'.op \in ops

\* the call that returns in this step was given no empty argument
ArgsGiven == \A i \in 1..Len(res'.args) : res'.args[i] # <<>>

\* the requests of kind k among reqs
Sent(reqs, k) == {i \in 1..Len(reqs) : reqs[i].k = k}

\* C1: every operation of the client called on an account whose email,
\* password or token is empty, or whose disk-usage probe the server
\* rejects, returns a NotAuthorized error and issues no request of its own
\* (no request but the probe's).
C1_UnauthorizedRejected ==
    [][(Returns(ClientOps) /\ ArgsGiven /\ ~Authorized)
        => /\ res'.err = "NotAuthorized"
           /\ \A i \in 1..Len(res'.reqs) : res'.reqs[i].k = "space"]_vars

\* the entry the server holds at the path, however the path is written
Present(path) == SrvPresent(tree, SrvHome(getPathStartEndSlash(path, TRUE, FALSE)))

\* C2: Publish, Rename, Copy and Move of a path at which the server holds
\* no entry end with a PathNotExists error, whether or not the parent
\* folder of the path is listed.
C2_MissingSourceNotExists ==
    [][(Returns({"Publish", "Rename", "Copy", "Move"}) /\ ArgsGiven /\ Authorized
        /\ ~Present(res'.args[1]))
        => res'.err = "PathNotExists"]_vars

\* C4: Copy and Move of an existing entry into a folder the server does not
\* hold end with a PathNotExists error, and no copy or move request is sent.
C4_MissingDestinationNotExists ==
    [][(Returns({"Copy", "Move"}) /\ ArgsGiven /\ Authorized
        /\ Present(res'.args[1])
        /\ ~SrvIsFolder(tree, SrvHome(getPathStartEndSlash(res'.args[2], TRUE, FALSE))))
        => /\ res'.err = "PathNotExists"
           /\ Sent(res'.reqs, "copy") = {}
           /\ Sent(res'.reqs, "move") = {}]_vars

\* the link names an entry the server has published
LinkExists(link) ==
    \E h \in Homes : tree[h] = "shared" /\ link = PublicLink \o WeblinkOf(h)

\* C5: Unpublish of an empty link, of a link that is the bare prefix, or of
\* a link that names no published entry ends with PublicLinkNotExists, and
\* Publish of a path at which the server holds no entry ends with
\* PathNotExists.
C5_ErrorKindByOperation ==
    [][/\ (Returns({"Unpublish"}) /\ res'.args[1] = <<>>)
            => res'.err = "PublicLinkNotExists"
       /\ (Returns({"Unpublish"}) /\ Authorized /\ ~LinkExists(res'.args[1]))
            => res'.err = "PublicLinkNotExists"
       /\ (Returns({"Publish"}) /\ ArgsGiven /\ Authorized /\ ~Present(res'.args[1]))
            => res'.err = "PathNotExists"]_vars

\* C6: the Folder that GetFolder returns has a FilesCount equal to the
\* number of files its GetFiles returns and a FoldersCount equal to the
\* number of folders its GetFolders returns.
C6_CountsMatchListing ==
    (res.op = "GetFolder" /\ res.err = OK /\ res.val # NilV)
    => /\ res.val.FilesCount
          = Len(FolderGetFiles(res.val, account, tree, sessionOK, res.at).out)
       /\ res.val.FoldersCount
          = Len(FolderGetFolders(res.val, account, tree, sessionOK, res.at).out)

\* the server holds the folder an upload names as its destination
DestinationListed(dest) ==
    SrvIsFolder(tree, SrvHome(getPathStartEndSlash(dest, TRUE, TRUE)))

\* C3: an upload of a named, non-empty content into a folder the server
\* does not hold ends with a PathNotExists error, with no shard lookup, no
\* PUT request and no request that creates the file: it never has a PUT
\* request in flight.
C3_UploadMissingDestination ==
    [][/\ (xfer[1] = Idle /\ xfer'[1] # Idle /\ xfer'[1].st = "put")
            => DestinationListed(xfer'[1].args[3])
       /\ (Returns({"Upload"}) /\ Authorized /\ res'.args[1] # <<>>
           /\ res'.args[2] > 0 /\ ~DestinationListed(res'.args[3]))
            => /\ res'.err = "PathNotExists"
               /\ Sent(res'.reqs, "dispatcher") = {}
               /\ Sent(res'.reqs, "put") = {}
               /\ Sent(res'.reqs, "file/add") = {}]_vars

\* the handles a returned value holds
Handles(v) ==
    IF v.kind = "list" THEN {v.items[i] : i \in 1..Len(v.items)}
    ELSE IF v.kind \in {"folder", "file", "entry"} THEN {v}
    ELSE {}

\* a public link: empty, or the prefix followed by a suffix of the server
LinkOK(link) ==
    \/ link = <<>>
    \/ \E h \in Homes : link = PublicLink \o WeblinkOf(h)

\* C7: the PublicLink of every entry the client returns, and of the Folder
\* held, is empty or is the public prefix followed by the suffix the server
\* issued.
C7_PublicLinkForm ==
    \A x \in Handles(res.val) \cup Handles(fld) : LinkOK(x.base.PublicLink)

\* GetFiles has returned a file that is published
C7_Witness ==
    /\ res.op = "GetFiles"
    /\ \E x \in Handles(res.val) :
          /\ x.base.PublicLink # <<>>
          /\ HasPrefix(x.base.PublicLink, PublicLink)

Transfers == {"Upload", "Download", "Zip"}

\* C8: once AbortAllAsyncTasks has been called the context stays cancelled;
\* every transfer in flight ends with the cancellation error; a transfer
\* started afterwards ends in the step that starts it, without a transfer
\* request, and with an error.
C8_AbortCancelsTransfers ==
    [][/\ cancelled => cancelled'
       /\ \A c \in Callers :
            /\ (cancelled /\ xfer[c] # Idle /\ xfer'[c] = Idle)
                  => res'.err = "Canceled"
            /\ (cancelled /\ xfer[c] = Idle) => xfer'[c] = Idle
       /\ (cancelled /\ Returns(Transfers)) => res'.err # OK
       /\ (cancelled /\ Returns(Transfers) /\ xfer' = xfer)
            => Sent(res'.reqs, "put") \cup Sent(res'.reqs, "get") = {}]_vars

\* a transfer whose request was in flight has ended with the cancellation
\* error
C8_Witness ==
    /\ cancelled
    /\ res.op \in Transfers
    /\ res.err = "Canceled"
    /\ Sent(res.reqs, "put") \cup Sent(res.reqs, "get") # {}

\* a listing access on the Folder held
Access == FolderGetFilesAct \/ FolderGetFoldersAct

\* the access that follows a listing access on the same Folder within the
\* freshness window, with no call in between, and detects no change of the
\* disk usage
SecondAccess ==
    /\ Access
    /\ res.op \in AccessOps
    /\ now - res.at <= FreshnessWindow
    /\ ~updateFolderInfo(fld, FALSE, account, tree, sessionOK, now).changed

\* C9 as stated: two listing accesses on the same Folder within the
\* freshness window, with no forced refresh between them and no detected
\* change of the disk usage, issue at most one listing request.
C9_AtMostOneListingRequest ==
    [][SecondAccess
         => ListingReqs(res.reqs) + ListingReqs(res'.reqs) <= 1]_vars

\* C9: two listing accesses on the same Folder within the freshness window,
\* with no forced refresh between them and no detected change of the disk
\* usage, issue at most one listing request when the Folder holds a listing
\* after the first of them: the second access then issues none.
C9_CachedListingReused ==
    [][(SecondAccess /\ ~fld.Items.nil)
         => /\ ListingReqs(res.reqs) + ListingReqs(res'.reqs) <= 1
            /\ ListingReqs(res'.reqs) = 0]_vars

\* the second of two accesses within the window has reused the listing
\* that the first one fetched
C9_Witness ==
    /\ res.op \in AccessOps
    /\ hist.prev # NilV
    /\ res.at - hist.prev.at <= FreshnessWindow
    /\ hist.prev.n = 1
    /\ hist.prev.held
    /\ ListingReqs(res.reqs) = 0
    /\ ~fld.Items.nil

\* C10: a listing access on a Folder that holds a listing, fetched at
\* hist.at when the account used hist.used bytes, asks for the listing again
\* exactly when more than the freshness window has passed since that fetch
\* and the bytes the account uses now differ from hist.used.
C10_RefetchIffStaleAndChanged ==
    [][(Access /\ ~fld.Items.nil /\ hist.at # NoTime)
         => (ListingReqs(res'.reqs) > 0
               <=> (/\ now - hist.at > FreshnessWindow
                    /\ SrvUsed(tree) * MB # hist.used))]_vars

\* the answer of the server to the listing request of GetFolder(p)
ListingAnswer(p) ==
    SrvFolderResponse(tree, sessionOK, getPathStartEndSlash(p, TRUE, TRUE))

\* C11: a GetFolder whose listing request the server answers with a status
\* that is no success returns a nil folder and no error; a GetFolder(p) that
\* follows a Remove(p) which returned no error returns a nil folder and no
\* error.
C11_MissingFolderIsNil ==
    [][/\ (Returns({"GetFolder"}) /\ Sent(res'.reqs, "folder") # {}
           /\ ListingAnswer(res'.args[1]).status # 200)
            => (res'.err = OK /\ res'.val = NilV)
       /\ (res.op = "Remove" /\ res.err = OK
           /\ res'.op = "GetFolder" /\ res'.args = res.args)
            => (res'.err = OK /\ res'.val = NilV)]_vars

\* GetFolder has asked for the listing of a folder the server does not
\* hold and has returned nil without error
C11_Witness ==
    /\ res.op = "GetFolder"
    /\ res.args = <<pA>>
    /\ tree[pA] = "absent"
    /\ sessionOK
    /\ Sent(res.reqs, "folder") # {}
    /\ res.err = OK
    /\ res.val = NilV

-----------------------------------------------------------------------------
(* File and Folder handles: Copy and Move *)

\* the receiver of File.Move, Folder.Move after the three assignments from
\* the result of the client's call
MovedHandle(f, o) ==
    [f EXCEPT !.base.FullPath = o.val.base.FullPath,
              !.base.Name = o.val.base.Name,
              !.base.PublicLink = o.val.base.PublicLink]

\* a File.Move that leaves its receiver as it was
FileMoveUnset(f, o) ==
    IF o.err # OK
    THEN [err |-> o.err, reqs |-> o.reqs, val |-> NilV, f |-> f, tree |-> o.tree]
    ELSE [err |-> OK, reqs |-> o.reqs, val |-> f, f |-> f, tree |-> o.tree]

\* File.Move with outcome o of client.Move(f.FullPath, destFolderPath): the
\* value returned, and the receiver afterwards
FileMove(f, o) ==
    IF o.err # OK
    THEN [err |-> o.err, reqs |-> o.reqs, val |-> NilV, f |-> f, tree |-> o.tree]
    ELSE [err |-> OK, reqs |-> o.reqs, val |-> MovedHandle(f, o),
          f |-> MovedHandle(f, o), tree |-> o.tree]

\* File.Copy with outcome o of client.Copy(f.FullPath, destFolderPath)
FileCopy(f, o) ==
    IF o.err # OK
    THEN [err |-> o.err, reqs |-> o.reqs, val |-> NilV, f |-> f, tree |-> o.tree]
    ELSE [err |-> OK, reqs |-> o.reqs,
          val |-> [kind |-> "file", base |-> o.val.base, Hash |-> f.Hash],
          f |-> f, tree |-> o.tree]

\* Folder.Copy with outcome o of client.Copy(f.FullPath, destFolderPath)
FolderCopy(f, o) ==
    IF o.err # OK
    THEN [err |-> o.err, reqs |-> o.reqs, val |-> NilV, f |-> f, tree |-> o.tree]
    ELSE [err |-> OK, reqs |-> o.reqs,
          val |-> [kind |-> "folder", base |-> o.val.base,
                   FoldersCount |-> f.FoldersCount, FilesCount |-> f.FilesCount,
                   Items |-> NilItems, prevDiskUsed |-> 0,
                   lastItemsGettingTime |-> NoTime],
          f |-> f, tree |-> o.tree]

\* Folder.Move with outcome o of client.Move(f.FullPath, destFolderPath) and
\* outcome u of the forced updateFolderInfo that follows the assignments
FolderMoveOf(f, o, u) ==
    IF o.err # OK
    THEN [err |-> o.err, reqs |-> o.reqs, val |-> NilV, f |-> f, tree |-> o.tree]
    ELSE IF u.panic
    THEN [err |-> "panic", reqs |-> o.reqs \o u.reqs, val |-> NilV, f |-> u.f,
          tree |-> o.tree]
    ELSE [err |-> OK, reqs |-> o.reqs \o u.reqs, val |-> u.f, f |-> u.f,
          tree |-> o.tree]

\* Folder.Move from the outcome o of the client's call on
FolderMoveWith(f, a, sOK, T, o) ==
    FolderMoveOf(f, o, updateFolderInfo(MovedHandle(f, o), TRUE, a, o.tree, sOK, T))

FolderMove(f, a, t, sOK, T, destFolderPath) ==
    FolderMoveWith(f, a, sOK, T,
                   moveOrCopyInternal(a, t, sOK, T, f.base.FullPath, destFolderPath, TRUE))

\* the caller keeps one of the Files that GetFiles returned
TakeFile(i) ==
    /\ res.op = "GetFiles"
    /\ res.err = OK
    /\ i \in 1..Len(res.val.items)
    /\ fld' = res.val.items[i]
    /\ hist' = NoHist
    /\ res' = NoResult
    /\ UNCHANGED <<account, cancelled, tree, sessionOK, now, xfer, progress>>

\* a call of a method of the handle held, with outcome r
HandleCall(op, dest, r) ==
    /\ Returned(op, <<dest>>, [err |-> r.err, reqs |-> r.reqs, val |-> r.val])
    /\ fld' = r.f
    /\ tree' = r.tree
    /\ UNCHANGED <<account, cancelled, sessionOK, now, hist, xfer, progress>>

FileMoveAct(dest) ==
    /\ fld.kind = "file"
    /\ HandleCall("File.Move", dest,
                  FileMove(fld, moveOrCopyInternal(account, tree, sessionOK, now,
                                                   fld.base.FullPath, dest, TRUE)))

FileCopyAct(dest) ==
    /\ fld.kind = "file"
    /\ HandleCall("File.Copy", dest,
                  FileCopy(fld, moveOrCopyInternal(account, tree, sessionOK, now,
                                                   fld.base.FullPath, dest, FALSE)))

FolderMoveAct(dest) ==
    /\ fld.kind = "folder"
    /\ HandleCall("Folder.Move", dest,
                  FolderMove(fld, account, tree, sessionOK, now, dest))

FolderCopyAct(dest) ==
    /\ fld.kind = "folder"
    /\ HandleCall("Folder.Copy", dest,
                  FolderCopy(fld, moveOrCopyInternal(account, tree, sessionOK, now,
                                                     fld.base.FullPath, dest, FALSE)))

\* the listing accesses, on a handle that is a Folder
HandleGetFilesAct == fld.kind = "folder" /\ FolderGetFilesAct

HandleGetFoldersAct == fld.kind = "folder" /\ FolderGetFoldersAct

\* the folders a handle is copied or moved to
HandleDests == {Root, pA, pB}

NextHandle ==
    \/ OpenFolder(Root)
    \/ HandleGetFilesAct
    \/ HandleGetFoldersAct
    \/ TakeSubfolder(1)
    \/ TakeFile(1)
    \/ CreateFolderAct(pB)
    \/ \E d \in HandleDests : FileMoveAct(d)
    \/ \E d \in HandleDests : FileCopyAct(d)
    \/ \E d \in HandleDests : FolderMoveAct(d)
    \/ \E d \in HandleDests : FolderCopyAct(d)

SpecHandle == InitCache /\ [][NextHandle]_vars

\* the path an entry named like the handle held takes in the folder dest
NewHome(dest) ==
    SrvJoin(SrvHome(getPathStartEndSlash(dest, TRUE, FALSE)), SrvName(fld.base.FullPath))

\* the entry that Copy and Move return for the handle held and the folder
\* dest: no public link, the path and the name the server confirmed
RelocatedTo(b, dest) ==
    /\ b.PublicLink = <<>>
    /\ b.FullPath = NewHome(dest)
    /\ b.Name = SrvName(NewHome(dest))
    /\ SrvPresent(tree', NewHome(dest))

\* C12: a Copy or Move that succeeds returns an entry with an empty
\* PublicLink and the path and name the server confirmed; File.Move and
\* Folder.Move leave the calling handle with the FullPath, Name and
\* PublicLink of that entry; File.Copy and Folder.Copy return another handle
\* and leave the calling handle as it was.
C12_MoveMutatesCopyDoesNot ==
    [][/\ (Returns({"File.Move", "Folder.Move"}) /\ res'.err = OK)
            => /\ RelocatedTo(fld'.base, res'.args[1])
               /\ res'.val = fld'
       /\ (Returns({"File.Copy", "Folder.Copy"}) /\ res'.err = OK)
            => /\ RelocatedTo(res'.val.base, res'.args[1])
               /\ res'.val.base.FullPath # fld.base.FullPath
       /\ Returns({"File.Copy", "Folder.Copy"}) => fld' = fld]_vars

\* a File.Move has relocated the handle held
C12_Witness ==
    /\ res.op = "File.Move"
    /\ res.err = OK
    /\ fld.kind = "file"
    /\ fld.base.FullPath = pAF
    /\ tree[pAF] # "absent"
    /\ tree[pF] = "absent"

\* C13: Publish of an existing entry returns the public prefix followed by
\* the suffix the server issued; an Unpublish of that link which follows it
\* sends the link without the prefix and returns the entry of the same
\* path, resolved again, with an empty PublicLink.
C13_PublishThenUnpublish ==
    [][/\ (Returns({"Publish"}) /\ res'.err = OK)
            => /\ res'.val.base.PublicLink
                    = PublicLink \o WeblinkOf(res'.val.base.FullPath)
               /\ tree'[res'.val.base.FullPath] = "shared"
       /\ (res.op = "Publish" /\ res.err = OK /\ sessionOK
           /\ res'.op = "Unpublish" /\ res'.args = <<res.val.base.PublicLink>>)
            => /\ res'.err = OK
               /\ \E i \in Sent(res'.reqs, "unpublish") :
                     res'.reqs[i].p = WeblinkOf(res.val.base.FullPath)
               /\ res'.val.base.FullPath = res.val.base.FullPath
               /\ res'.val.base.PublicLink = <<>>
               /\ tree'[res.val.base.FullPath] = "plain"]_vars

\* the link of /f.t has been withdrawn and its entry returned
C13_Witness ==
    /\ res.op = "Unpublish"
    /\ res.args = <<PublicLink \o WeblinkOf(pF)>>
    /\ res.err = OK
    /\ res.val.base.FullPath = pF
    /\ res.val.base.PublicLink = <<>>
    /\ tree[pF] = "plain"

-----------------------------------------------------------------------------
(* The history of a file                                                   *)

\* the byte counts of the revisions the server keeps, by revision number
RevSizes == <<1536, 700, 3145728>>

\* one element of the server's history answer: the keys uid, name, path, rev,
\* hash, time and size of the History type
SrvHistoryElem(home, r) ==
    [uid |-> r, name |-> SrvName(home), path |-> home, rev |-> r,
     hash |-> <<"#", Digit(r)>>, time |-> 60 * r, size |-> RevSizes[r]]

\* the histories a file can have on the server, newest revision first
SrvHistories(home) ==
    {<<>>,
     <<SrvHistoryElem(home, 2)>>,
     <<SrvHistoryElem(home, 3), SrvHistoryElem(home, 1)>>}

\* POST /api/v2/file/history
SrvHistoryResponse(t, sOK, home, revs) ==
    IF ~sOK THEN Rejected(t)
    ELSE IF home \notin Homes \ FolderHomes \/ ~SrvPresent(t, home)
    THEN [status |-> 404, body |-> ErrBody, tree |-> t]
    ELSE [status |-> 200, body |-> [kind |-> "histories", list |-> revs], tree |-> t]

\* NewSize: the byte count with its value in the largest unit that does not
\* exceed it, truncated to hundredths (byte counts below 2^31)
NewSize(sourceValue) ==
    LET unit == CASE sourceValue < 1024       -> [type |-> "Byte", bytes |-> 1]
                  [] sourceValue < 1048576    -> [type |-> "KB", bytes |-> 1024]
                  [] sourceValue < 1073741824 -> [type |-> "MB", bytes |-> 1048576]
                  [] OTHER                    -> [type |-> "GB", bytes |-> 1073741824]
    IN  [DefaultValue        |-> sourceValue,
         NormalizedType      |-> unit.type,
         NormalizedHundredths |-> ((sourceValue \div unit.bytes) * 100)
                                   + (((sourceValue % unit.bytes) * 100) \div unit.bytes)]

\* time.Unix(sec, 0) and Time.UTC
TimeUnix(sec) == [sec |-> sec, nsec |-> 0, loc |-> "Local"]
UTC(tm) == [tm EXCEPT !.loc = "UTC"]
ZeroTime == [sec |-> NoTime, nsec |-> 0, loc |-> "UTC"]

\* json.Unmarshal into a History: the tagged fields are read, the others
\* keep their zero values
HistoryOfJSON(e) ==
    [ID                   |-> e.uid,
     LastModifiedTimeUTC  |-> ZeroTime,
     Name                 |-> e.name,
     FullPath             |-> e.path,
     Size                 |-> NilV,
     IsCurrentVersion     |-> FALSE,
     Revision             |-> e.rev,
     Hash                 |-> e.hash,
     LastModifiedTimeUnix |-> e.time,
     SizeBytes            |-> e.size]

\* every element marked current
MarkHistoryAll(list) ==
    [i \in 1..Len(list) |->
        [list[i] EXCEPT !.IsCurrentVersion = TRUE,
                        !.Size = NewSize(list[i].SizeBytes),
                        !.LastModifiedTimeUTC = UTC(TimeUnix(list[i].LastModifiedTimeUnix))]]

\* the end of GetFileHistory: the first element is the current version, and
\* every element gets its Size and its time
MarkHistory(list) ==
    [i \in 1..Len(list) |->
        [list[i] EXCEPT !.IsCurrentVersion = (i = 1 \/ @),
                        !.Size = NewSize(list[i].SizeBytes),
                        !.LastModifiedTimeUTC = UTC(TimeUnix(list[i].LastModifiedTimeUnix))]]

\* CloudClient.GetFileHistory, from the outcome of its authorization check,
\* the path it requests and the answer of the server
GetFileHistoryOf(a, t, sourceFullPath, auth, path, resp) ==
    IF sourceFullPath = <<>> THEN Outcome("PathNotExists", <<>>, NilV, t)
    ELSE IF auth.err # OK THEN Outcome(auth.err, auth.reqs, NilV, t)
    ELSE IF ~a.httpClient THEN Outcome("panic", auth.reqs, NilV, t)
    ELSE IF resp.status = 404
    THEN Outcome("PathNotExists", auth.reqs \o <<Req("history", path)>>, NilV, t)
    ELSE IF resp.body.kind # "histories"
    THEN Outcome("Other", auth.reqs \o <<Req("history", path)>>, NilV, t)
    ELSE Outcome(OK, auth.reqs \o <<Req("history", path)>>,
                 [kind  |-> "histories",
                  items |-> MarkHistory([i \in 1..Len(resp.body.list) |->
                                           HistoryOfJSON(resp.body.list[i])])],
                 t)

GetFileHistory(a, t, sOK, sourceFullPath, revs) ==
    GetFileHistoryOf(a, t, sourceFullPath, checkAuthorization(a, t, sOK),
                     getPathStartEndSlash(sourceFullPath, TRUE, FALSE),
                     SrvHistoryResponse(t, sOK,
                         SrvHome(getPathStartEndSlash(sourceFullPath, TRUE, FALSE)), revs))

\* the first element of the history with the revision, or nil
RECURSIVE FindRevision(_, _, _)
FindRevision(histories, historyRevision, i) ==
    IF i > Len(histories) THEN NilV
    ELSE IF histories[i].Revision = historyRevision THEN histories[i]
    ELSE FindRevision(histories, historyRevision, i + 1)

\* the name asked for, the extension of the original never appended
RestoreNewNameBare(sourceFullPath, newFileName) ==
    IF newFileName = <<>> THEN FilepathBase(sourceFullPath) ELSE newFileName

\* the name the restored file is asked to get
RestoreNewName(sourceFullPath, newFileName) ==
    LET originalFileName == FilepathBase(sourceFullPath)
        extension == FilepathExt(originalFileName)
    IN  IF newFileName = <<>> THEN originalFileName
        ELSE IF ~HasSuffix(ToLower(newFileName), ToLower(extension))
        THEN newFileName \o extension
        ELSE newFileName

\* the path of the create-file request
RestoreNewFullPath(sourceFullPath, rewriteExisting, newFileName) ==
    IF rewriteExisting THEN sourceFullPath
    ELSE getParentCloudPath(sourceFullPath) \o RestoreNewName(sourceFullPath, newFileName)

\* the File that RestoreFileFromHistory returns: no account, no client
RestoredFile(created, history) ==
    [kind |-> "file",
     base |-> [Name         |-> created.NewName,
               Size         |-> history.Size,
               FullPath     |-> created.NewPath,
               PublicLink   |-> <<>>,
               FilesCount   |-> 0,
               FoldersCount |-> 0,
               account      |-> FALSE,
               client       |-> FALSE],
     Hash |-> history.Hash,
     LastModifiedTimeUTC |-> history.LastModifiedTimeUTC]

\* RestoreFileFromHistory that asks for the history before it looks at the
\* revision and the tariffs
RestoreFileFromHistoryLate(a, t, historyRevision, hs, history, created) ==
    IF hs.err # OK THEN Outcome(hs.err, hs.reqs, NilV, t)
    ELSE IF historyRevision <= 0 \/ history = NilV
    THEN Outcome("HistoryNotExists", hs.reqs, NilV, t)
    ELSE IF Has2GBUploadSizeLimit(a)
    THEN Outcome("NotSupportedOperation", hs.reqs, NilV, t)
    ELSE IF created.err # OK
    THEN Outcome(created.err, hs.reqs \o created.reqs, NilV, created.tree)
    ELSE Outcome(OK, hs.reqs \o created.reqs, RestoredFile(created.val, history), created.tree)

\* CloudClient.RestoreFileFromHistory, from the outcome hs of GetFileHistory,
\* the element found in it and the outcome of createFileOrFolder
RestoreFileFromHistoryOf(a, t, historyRevision, hs, history, created) ==
    IF historyRevision <= 0 THEN Outcome("HistoryNotExists", <<>>, NilV, t)
    ELSE IF Has2GBUploadSizeLimit(a)
    THEN Outcome("NotSupportedOperation", <<>>, NilV, t)
    ELSE IF hs.err # OK THEN Outcome(hs.err, hs.reqs, NilV, t)
    ELSE IF history = NilV THEN Outcome("HistoryNotExists", hs.reqs, NilV, t)
    ELSE IF created.err # OK
    THEN Outcome(created.err, hs.reqs \o created.reqs, NilV, created.tree)
    ELSE Outcome(OK, hs.reqs \o created.reqs, RestoredFile(created.val, history), created.tree)

RestoreFileFromHistoryWith(a, t, sOK, sourceFullPath, historyRevision, rewriteExisting, newFileName, hs, history) ==
    RestoreFileFromHistoryOf(a, t, historyRevision, hs, history,
        IF hs.err = OK /\ history # NilV
        THEN createFileOrFolder(a, t, sOK, TRUE,
                 RestoreNewFullPath(sourceFullPath, rewriteExisting, newFileName),
                 history.Hash, history.SizeBytes, rewriteExisting)
        ELSE NilV)

RestoreFileFromHistoryFrom(a, t, sOK, sourceFullPath, historyRevision, rewriteExisting, newFileName, hs) ==
    RestoreFileFromHistoryWith(a, t, sOK, sourceFullPath, historyRevision, rewriteExisting, newFileName, hs,
        IF hs.err = OK THEN FindRevision(hs.val.items, historyRevision, 1) ELSE NilV)

RestoreFileFromHistory(a, t, sOK, sourceFullPath, historyRevision, rewriteExisting, newFileName, revs) ==
    RestoreFileFromHistoryFrom(a, t, sOK, sourceFullPath, historyRevision, rewriteExisting, newFileName,
        GetFileHistory(a, t, sOK, sourceFullPath, revs))

\* the accounts after a login, by the tariffs the server reports
TariffLists == {<<>>, <<"ZERO">>, <<"W128G">>, <<"ZERO", "ZERO">>, <<"ZERO", "W128G">>}

\* the trees that hold the files whose history is asked for
HistoryTrees == {t \in InitTrees : t[pF] # "absent" /\ t[pAF] = "plain" /\ t[pA] = "plain"}

InitHistory ==
    /\ account \in {LoginOp(NewAccount("u", "p"), TRUE, ts).account : ts \in TariffLists}
    /\ cancelled = FALSE
    /\ tree \in HistoryTrees
    /\ sessionOK = TRUE
    /\ now = 0
    /\ fld = NilV
    /\ hist = NoHist
    /\ xfer = [c \in Callers |-> Idle]
    /\ progress = NoProgress
    /\ res = NoResult

HistoryPaths == {<<>>, pF, pAF, pBF}
HistoryRevisions == {0, 1, 2}
HistoryNames == {<<>>, <<"c">>, <<"c", ".", "T">>}

GetFileHistoryAct(p, revs) ==
    Call("GetFileHistory", <<p, revs>>, GetFileHistory(account, tree, sessionOK, p, revs))

RestoreFileFromHistoryAct(p, rev, rewrite, name, revs) ==
    Call("RestoreFileFromHistory", <<p, rev, rewrite, name, revs>>,
         RestoreFileFromHistory(account, tree, sessionOK, p, rev, rewrite, name, revs))

Has2GBUploadSizeLimitAct ==
    Call("Has2GBUploadSizeLimit", <<>>,
         Outcome(OK, <<>>, [kind |-> "bool", b |-> Has2GBUploadSizeLimit(account)], tree))

NextHistory ==
    \/ SessionExpire
    \/ Has2GBUploadSizeLimitAct
    \/ \E p \in HistoryPaths, revs \in SrvHistories(pF) : GetFileHistoryAct(p, revs)
    \/ \E p \in HistoryPaths, rev \in HistoryRevisions, rewrite \in BOOLEAN, name \in HistoryNames, revs \in SrvHistories(pF) :
          RestoreFileFromHistoryAct(p, rev, rewrite, name, revs)

SpecHistory == InitHistory /\ [][NextHistory]_vars

\* the call of RestoreFileFromHistory that has just returned
Restored == Returns({"RestoreFileFromHistory"})

\* the server holds the file at path and its history has no element with
\* the revision
RevisionMissing(path, historyRevision, revs) ==
    /\ path # <<>>
    /\ sessionOK
    /\ SrvHistoryResponse(tree, sessionOK, SrvHome(getPathStartEndSlash(path, TRUE, FALSE)), revs).status = 200
    /\ \A i \in 1..Len(revs) : revs[i].rev # historyRevision

\* C14: RestoreFileFromHistory fails with HistoryNotExists for a revision
\* <= 0 and, for a positive revision, with NotSupportedOperation on a
\* capacity-limited account, both without any request; for a positive
\* revision on another account it fails with HistoryNotExists when the
\* history of the file has no element with the revision; a call that ends
\* with one of these two errors has issued no create-file request.
C14_RestoreRejections ==
    [][Restored =>
        /\ (res'.args[2] <= 0)
              => (res'.err = "HistoryNotExists" /\ res'.reqs = <<>>)
        /\ (res'.args[2] > 0 /\ Has2GBUploadSizeLimit(account))
              => (res'.err = "NotSupportedOperation" /\ res'.reqs = <<>>)
        /\ (res'.args[2] > 0 /\ ~Has2GBUploadSizeLimit(account)
             /\ RevisionMissing(res'.args[1], res'.args[2], res'.args[5]))
              => (res'.err = "HistoryNotExists" /\ Sent(res'.reqs, "history") # {})
        /\ (res'.err \in {"HistoryNotExists", "NotSupportedOperation"})
              => (Sent(res'.reqs, "file/add") = {})]_vars

\* a revision that the history obtained from the server does not hold
C14_Witness == res.op = "RestoreFileFromHistory" /\ res.args[1] = pF /\ res.args[2] = 2 /\ Len(res.args[5]) = 2 /\ ~Has2GBUploadSizeLimit(account) /\ res.err = "HistoryNotExists" /\ Sent(res.reqs, "history") # {} /\ Sent(res.reqs, "file/add") = {}

\* the name C15 describes for a restore of path under newFileName
C15_Name(path, newFileName) ==
    LET ext == FilepathExt(FilepathBase(path))
    IN  IF newFileName = <<>> THEN FilepathBase(path)
        ELSE IF Len(newFileName) >= Len(ext) /\ ToLower(SubSeq(newFileName, Len(newFileName) - Len(ext) + 1, Len(newFileName))) = ToLower(ext)
        THEN newFileName
        ELSE newFileName \o ext

\* the element of the server's history that has the revision
RevisionOf(revs, historyRevision) == CHOOSE e \in {revs[i] : i \in 1..Len(revs)} : e.rev = historyRevision

\* C15: a RestoreFileFromHistory with rewriteExisting = false that reaches
\* its create-file request submits parentOf(path) + N, N the original
\* basename for an empty newFileName, newFileName when it ends with the
\* original extension compared case-insensitively, and newFileName + the
\* extension otherwise; the File of a successful restore carries the hash
\* and the size of the revision.
C15_RestoreDestination ==
    [][Restored =>
        /\ (~res'.args[3])
              => (\A i \in Sent(res'.reqs, "file/add") :
                     res'.reqs[i].p = getParentCloudPath(res'.args[1])
                                         \o C15_Name(res'.args[1], res'.args[4]))
        /\ (res'.err = OK)
              => (/\ Sent(res'.reqs, "file/add") # {}
                  /\ res'.val.Hash = RevisionOf(res'.args[5], res'.args[2]).hash
                  /\ res'.val.base.Size
                        = NewSize(RevisionOf(res'.args[5], res'.args[2]).size))]_vars

\* the first revision of /f.t restored beside it under the name c
C15_Witness == res.op = "RestoreFileFromHistory" /\ res.args[1] = pF /\ res.args[2] = 1 /\ ~res.args[3] /\ res.args[4] = <<"c">> /\ res.err = OK /\ res.val.base.FullPath = pCT /\ res.val.Hash = <<"#", "1">> /\ res.val.base.Size.DefaultValue = 1536 /\ tree[pCT] = "plain"

\* a new name that carries the extension in another case is submitted as it is
C15_WitnessCase == res.op = "RestoreFileFromHistory" /\ res.args[1] = pF /\ ~res.args[3] /\ res.args[4] = <<"c", ".", "T">> /\ \E i \in Sent(res.reqs, "file/add") : res.reqs[i].p = <<SL, "c", ".", "T">>

\* C16: a non-empty history returned by GetFileHistory has as many elements
\* as the server sent, the first with IsCurrentVersion = true and every
\* other with IsCurrentVersion = false, and each element has the Size of
\* its byte count and, as LastModifiedTimeUTC, the UTC time of its epoch
\* seconds.
C16_HistoryMarked ==
    (res.op = "GetFileHistory" /\ res.err = OK) =>
        /\ Len(res.val.items) = Len(res.args[2])
        /\ \A i \in 1..Len(res.val.items) :
              /\ res.val.items[i].IsCurrentVersion = (i = 1)
              /\ res.val.items[i].SizeBytes = res.args[2][i].size
              /\ res.val.items[i].Size = NewSize(res.args[2][i].size)
              /\ res.val.items[i].LastModifiedTimeUTC
                    = [sec |-> res.args[2][i].time, nsec |-> 0, loc |-> "UTC"]

\* a history of two revisions, the older of 1536 bytes = 1.50 KB
C16_Witness == res.op = "GetFileHistory" /\ res.err = OK /\ Len(res.val.items) = 2 /\ res.val.items[1].IsCurrentVersion /\ ~res.val.items[2].IsCurrentVersion /\ res.val.items[2].Size.NormalizedType = "KB" /\ res.val.items[2].Size.NormalizedHundredths = 150 /\ res.val.items[2].LastModifiedTimeUTC.sec = 60

-----------------------------------------------------------------------------
\* the parents of the paths, as getParentCloudPath gives them
ParentsOf(paths) == {getParentCloudPath(paths[i]) : i \in 1..Len(paths)}

\* a list GetDirectLinkZIPArchive accepts: not empty, no path empty or the root
ZipListOK(paths) == paths # <<>> /\ \A i \in 1..Len(paths) : paths[i] # <<>> /\ paths[i] # Root

\* C17: on a client that has logged in, GetDirectLinkZIPArchive with a
\* non-empty list of non-empty non-root paths fails with
\* DifferentParentPaths if and only if the paths do not all have the same
\* getParentCloudPath; when it fails so no bundling request is issued, and
\* when the parents agree one is issued, each path with a single leading
\* slash.
C17_ZipParents ==
    [][(Returns({"GetDirectLinkZIPArchive"}) /\ account.httpClient
        /\ ZipListOK(res'.args[1])) =>
        /\ (res'.err = "DifferentParentPaths")
              = (Cardinality(ParentsOf(res'.args[1])) > 1)
        /\ (res'.err = "DifferentParentPaths") => (Sent(res'.reqs, "zip") = {})
        /\ (Cardinality(ParentsOf(res'.args[1])) = 1)
              => (\E i \in Sent(res'.reqs, "zip") :
                     /\ Len(res'.reqs[i].p) = Len(res'.args[1])
                     /\ \A j \in 1..Len(res'.args[1]) :
                           res'.reqs[i].p[j]
                             = <<SL>> \o TrimPrefix(res'.args[1][j], <<SL>>))]_vars

\* f.t and /a, both in the root: one request for /f.t and /a
C17_Witness == res.op = "GetDirectLinkZIPArchive" /\ res.args[1] = <<fName, pA>> /\ account.httpClient /\ res.err = OK /\ \E i \in Sent(res.reqs, "zip") : res.reqs[i].p = <<pF, pA>>

\* /a and /a/f.t: no request
C17_WitnessDiffer == res.op = "GetDirectLinkZIPArchive" /\ res.args[1] = <<pA, pAF>> /\ account.httpClient /\ res.err = "DifferentParentPaths" /\ Sent(res.reqs, "zip") = {}

-----------------------------------------------------------------------------
\* the ceiling of the account for one upload, in MiB
UploadCeiling == IF Has2GBUploadSizeLimit(account) THEN SizeLimit2GB ELSE SizeLimit32GB

C18_WitnessAtCeiling == res.op = "Upload" /\ res.args[2] = SizeLimit2GB /\ Has2GBUploadSizeLimit(account) /\ res.err = OK /\ Sent(res.reqs, "put") # {}

\* 32 GiB + 1 MiB rejected on another account
C18_WitnessOther == res.op = "Upload" /\ ~Has2GBUploadSizeLimit(account) /\ res.args[2] = SizeLimit32GB + 1 /\ res.err = "UploadingSizeLimit"

-----------------------------------------------------------------------------
\* the identifiers of the activated tariffs of the account
TariffIDs == {account.ActivatedTariffs[i] : i \in 1..Len(account.ActivatedTariffs)}

\* C19: Has2GBUploadSizeLimit answers true if and only if every activated
\* tariff of the account has the identifier "ZERO"; an account without
\* tariffs has the limit.
C19_LimitIffAllZero == res.op = "Has2GBUploadSizeLimit" => (res.val.b = (TariffIDs \subseteq {"ZERO"}))

\* no tariff at all: limited
C19_Witness == res.op = "Has2GBUploadSizeLimit" /\ account.ActivatedTariffs = <<>> /\ res.val.b

\* a paid tariff beside the free one: not limited
C19_WitnessPaid == res.op = "Has2GBUploadSizeLimit" /\ account.ActivatedTariffs = <<"ZERO", "W128G">> /\ ~res.val.b

-----------------------------------------------------------------------------
\* the name the server holds for the entry at the path
ResolvedName(path) == SrvName(SrvHome(getPathStartEndSlash(path, TRUE, FALSE)))

\* the name C20 describes for a rename of the entry at path to newName
C20_Name(path, newName) ==
    LET ext == FilepathExt(ResolvedName(path))
    IN  IF ext # <<>> /\ ~(Len(newName) >= Len(ext) /\ ToLower(SubSeq(newName, Len(newName) - Len(ext) + 1, Len(newName))) = ToLower(ext))
        THEN newName \o ext
        ELSE newName

\* a Rename of an entry the server holds submits the name C20 describes
C20_NameRule ==
    [][(Returns({"Rename"}) /\ ArgsGiven /\ Authorized /\ Present(res'.args[1]))
        => (\E i \in Sent(res'.reqs, "rename") :
               res'.reqs[i].p = C20_Name(res'.args[1], res'.args[2]))]_vars

\* C20: Rename(path, newName) of a path at which the server holds no entry
\* fails with PathNotExists and sends no rename request; of an entry it
\* holds, it submits newName + ext when the name of the entry has the
\* extension ext and newName does not end with it (compared
\* case-insensitively), and newName unchanged otherwise.
C20_RenameResolvesSource ==
    [][(Returns({"Rename"}) /\ ArgsGiven /\ Authorized) =>
        /\ (~Present(res'.args[1]))
              => (res'.err = "PathNotExists" /\ Sent(res'.reqs, "rename") = {})
        /\ Present(res'.args[1])
              => (\E i \in Sent(res'.reqs, "rename") :
                     res'.reqs[i].p = C20_Name(res'.args[1], res'.args[2]))]_vars

-----------------------------------------------------------------------------
\* a DownloadFile whose GET request was answered has just returned: the
\* answer is res'.args[2], the state of its body res'.args[3]
Downloaded == Returns({"Download"}) /\ Len(res'.args) = 3 /\ res'.args[3] # "none"

\* C21: DownloadFile turns a 404 answer into PathNotExists and a 422 answer
\* into DownloadingSizeLimit, the body of the response closed in both
\* cases; for every other answer it returns without error the open body
\* of the response and the declared length, 0 when the length is unknown.
C21_DownloadAnswers ==
    [][Downloaded =>
        /\ (res'.args[2].status = 404)
              => (res'.err = "PathNotExists" /\ res'.args[3] = "closed" /\ res'.val = NilV)
        /\ (res'.args[2].status = 422)
              => (res'.err = "DownloadingSizeLimit" /\ res'.args[3] = "closed" /\ res'.val = NilV)
        /\ (res'.args[2].status \notin {404, 422})
              => (/\ res'.err = OK
                  /\ res'.args[3] = "open"
                  /\ res'.val.kind = "stream"
                  /\ res'.val.open
                  /\ res'.val.length = (IF res'.args[2].ContentLength >= 0
                                         THEN res'.args[2].ContentLength ELSE 0))]_vars

\* a file that is not there: 404, the body closed
C21_Witness == res.op = "Download" /\ Len(res.args) = 3 /\ res.args[2].status = 404 /\ res.args[3] = "closed" /\ res.err = "PathNotExists"

\* an answer without a length: the open stream, length 0
C21_WitnessUnknownLength == res.op = "Download" /\ Len(res.args) = 3 /\ res.args[2].ContentLength = -1 /\ res.err = OK /\ res.val.open /\ res.val.length = 0

\* an answer of status 500: the open stream, no error
C21_WitnessOtherStatus == res.op = "Download" /\ Len(res.args) = 3 /\ res.args[2].status = 500 /\ res.err = OK /\ res.val.open /\ res.val.length = 2

-----------------------------------------------------------------------------
(* getPathStartEndSlash on its own: every path over an ordinary character, *)
(* the slash and the backslash, normalized and normalized again            *)

PathChars == {"a", SL, BS}
PathsUpTo(n) == UNION {[1..k -> PathChars] : k \in 0..n}

PathV(str) == [kind |-> "path", str |-> str]

InitNormalize ==
    /\ account = LoggedIn
    /\ cancelled = FALSE
    /\ tree = [h \in Homes |-> "absent"]
    /\ sessionOK = TRUE
    /\ now = 0
    /\ fld = NilV
    /\ hist = NoHist
    /\ xfer = [c \in Callers |-> Idle]
    /\ progress = NoProgress
    /\ res = NoResult

\* getPathStartEndSlash(path, setAtStart, setAtEnd)
NormalizeAct(path, setAtStart, setAtEnd) ==
    Call("getPathStartEndSlash", <<path, setAtStart, setAtEnd>>,
         Outcome(OK, <<>>, PathV(getPathStartEndSlash(path, setAtStart, setAtEnd)), tree))

\* getPathStartEndSlash of the path it has just returned, with the same flags
NormalizeAgainAct ==
    /\ res.op = "getPathStartEndSlash"
    /\ Call("getPathStartEndSlash.again", <<res.val.str, res.args[2], res.args[3]>>,
            Outcome(OK, <<>>, PathV(getPathStartEndSlash(res.val.str, res.args[2], res.args[3])), tree))

NextNormalize ==
    \/ \E p \in PathsUpTo(MaxPathLen), a \in BOOLEAN, b \in BOOLEAN : NormalizeAct(p, a, b)
    \/ NormalizeAgainAct

SpecNormalize == InitNormalize /\ [][NextNormalize]_vars

\* the positions of str at which a slash follows a slash
DoubleSlashes(str) == {i \in 1..(Len(str) - 1) : str[i] = SL /\ str[i + 1] = SL}

\* C22: getPathStartEndSlash is idempotent for every path over ordinary
\* characters, slashes and backslashes and every pair of flags: applied to
\* its own result with the same flags it returns that result; a result
\* holds no backslash and no two slashes in a row, and begins with a slash
\* when setAtStart is set.
C22_NormalizeIdempotent ==
    /\ (res.op = "getPathStartEndSlash.again") => (res.val.str = res.args[1])
    /\ (res.op \in {"getPathStartEndSlash", "getPathStartEndSlash.again"})
          => (/\ \A i \in 1..Len(res.val.str) : res.val.str[i] # BS
              /\ DoubleSlashes(res.val.str) = {}
              /\ res.args[2] => (res.val.str # <<>> /\ res.val.str[1] = SL))

\* \\a//\\ normalized with both flags to /a/, and /a/ again to /a/
C22_Witness == res.op = "getPathStartEndSlash.again" /\ res.args = <<<<SL, "a", SL>>, TRUE, TRUE>> /\ res.val.str = <<SL, "a", SL>>

\* a path of backslashes only, without flags
C22_WitnessBackslash == res.op = "getPathStartEndSlash" /\ res.args = <<<<BS, BS, "a">>, FALSE, FALSE>> /\ res.val.str = <<SL, "a">>

-----------------------------------------------------------------------------
\* the call of UploadFileFromStream that has just returned was given an
\* empty file name, an empty content or a content above the ceiling, and
\* has failed with the error of that validation
UploadInvalid ==
    /\ Returns({"Upload"})
    /\ \/ (res'.args[1] = <<>> /\ res'.err = "PathNotExists")
       \/ (res'.args[2] = 0 /\ res'.err = "PathNotExists")
       \/ (res'.args[2] > UploadCeiling /\ res'.err = "UploadingSizeLimit")

\* C23: a validation failure of UploadFileFromStream (empty file name,
\* empty content, content over the size ceiling) is raised before the call
\* has issued any HTTP request, the authorization probe and the listing of
\* the destination folder included.
C23_ValidationBeforeRequests == [][UploadInvalid => res'.reqs = <<>>]_vars

-----------------------------------------------------------------------------
(* Folder handles: the methods that change the folder                      *)

\* CloudClient.UploadFileFromStream as one call, from its outcome b up to
\* the PUT request
UploadFileFromStreamFrom(a, t, sOK, ctxDone, size, b) ==
    IF b.done THEN Outcome(b.err, b.reqs, NilV, t)
    ELSE UploadEnd(a, t, sOK, ctxDone, [reqs |-> b.reqs, path |-> b.path, size |-> size])

UploadFileFromStream(a, t, sOK, ctxDone, destFileName, size, destFolderPath) ==
    UploadFileFromStreamFrom(a, t, sOK, ctxDone, size,
        UploadBegin(a, t, sOK, ctxDone, destFileName, size, destFolderPath))

\* CloudClient.UploadFile with an empty destFileName: the local file is
\* opened (opened tells whether it could be) and sent under its base name
UploadFile(a, t, sOK, ctxDone, sourceFilePath, opened, size, destFolderPath) ==
    IF sourceFilePath = <<>> THEN Outcome("PathNotExists", <<>>, NilV, t)
    ELSE IF ~opened THEN Outcome("Other", <<>>, NilV, t)
    ELSE UploadFileFromStream(a, t, sOK, ctxDone, FilepathBase(sourceFilePath), size,
                              destFolderPath)

\* a method of Folder that calls the client (outcome o), then
\* updateFolderInfo (outcome u), and returns val
FolderMutated(f, o, val, u) ==
    IF o.err # OK
    THEN [err |-> o.err, reqs |-> o.reqs, val |-> NilV, f |-> f, tree |-> o.tree]
    ELSE IF u.panic
    THEN [err |-> "panic", reqs |-> o.reqs \o u.reqs, val |-> NilV, f |-> u.f,
          tree |-> o.tree]
    ELSE [err |-> OK, reqs |-> o.reqs \o u.reqs, val |-> val, f |-> u.f,
          tree |-> o.tree]

FolderMutatedWith(f, a, sOK, T, forceUpdate, o) ==
    FolderMutated(f, o, o.val, updateFolderInfo(f, forceUpdate, a, o.tree, sOK, T))

\* Folder.Remove
FolderRemove(f, a, t, sOK, T) ==
    FolderMutatedWith(f, a, sOK, T, TRUE, RemoveOp(a, t, sOK, f.base.FullPath))

\* Folder.Rename: the assignments and the forced refresh of Folder.Move
FolderRename(f, a, t, sOK, T, newName) ==
    FolderMoveWith(f, a, sOK, T, RenameOp(a, t, sOK, T, f.base.FullPath, newName))

\* Folder.CreateFolder
FolderCreateFolder(f, a, t, sOK, T, folderName) ==
    IF \E i \in 1..Len(folderName) : folderName[i] = SL
    THEN [err |-> "PathNotExists", reqs |-> <<>>, val |-> NilV, f |-> f, tree |-> t]
    ELSE FolderMutatedWith(f, a, sOK, T, TRUE,
             CreateFolderOp(a, t, sOK, f.base.FullPath \o <<SL>> \o folderName))

\* Folder.UploadFile
FolderUploadFile(f, a, t, sOK, T, ctxDone, sourceFilePath, opened, size) ==
    FolderMutatedWith(f, a, sOK, T, TRUE,
        UploadFile(a, t, sOK, ctxDone, sourceFilePath, opened, size, f.base.FullPath))

\* a Folder.UploadFileFromStream that forces the refresh
FolderUploadFileFromStreamForced(f, a, t, sOK, T, ctxDone, fileName, size) ==
    FolderMutatedWith(f, a, sOK, T, TRUE,
        UploadFileFromStream(a, t, sOK, ctxDone, fileName, size, f.base.FullPath))

\* Folder.UploadFileFromStream: updateFolderInfo(false)
FolderUploadFileFromStream(f, a, t, sOK, T, ctxDone, fileName, size) ==
    FolderMutatedWith(f, a, sOK, T, FALSE,
        UploadFileFromStream(a, t, sOK, ctxDone, fileName, size, f.base.FullPath))

\* File.Remove: the error of the client's call, the receiver as it was
FileRemove(f, o) ==
    [err |-> o.err, reqs |-> o.reqs, val |-> NilV, f |-> f, tree |-> o.tree]

\* a Publish or Unpublish that clears the link of the receiver before it
\* looks at the error
HandleLinkedEager(f, o) ==
    IF o.err # OK
    THEN [err |-> o.err, reqs |-> o.reqs, val |-> NilV,
          f |-> [f EXCEPT !.base.PublicLink = <<>>], tree |-> o.tree]
    ELSE [err |-> OK, reqs |-> o.reqs,
          val |-> [f EXCEPT !.base.PublicLink = o.val.base.PublicLink],
          f |-> [f EXCEPT !.base.PublicLink = o.val.base.PublicLink],
          tree |-> o.tree]

\* File.Publish, File.Unpublish, Folder.Publish and Folder.Unpublish with
\* outcome o of the client's call: the receiver takes the link of the result
HandleLinked(f, o) ==
    IF o.err # OK
    THEN [err |-> o.err, reqs |-> o.reqs, val |-> NilV, f |-> f, tree |-> o.tree]
    ELSE [err |-> OK, reqs |-> o.reqs,
          val |-> [f EXCEPT !.base.PublicLink = o.val.base.PublicLink],
          f |-> [f EXCEPT !.base.PublicLink = o.val.base.PublicLink],
          tree |-> o.tree]

\* a call of a method of the handle held, with arguments args and outcome r
MethodCall(op, args, r) ==
    /\ Returned(op, args, [err |-> r.err, reqs |-> r.reqs, val |-> r.val])
    /\ fld' = r.f
    /\ tree' = r.tree
    /\ UNCHANGED <<account, cancelled, sessionOK, now, hist, xfer, progress>>

IsFolder == fld # NilV /\ fld.kind = "folder"
IsFile == fld # NilV /\ fld.kind = "file"

FolderRemoveAct ==
    /\ IsFolder
    /\ MethodCall("Folder.Remove", <<>>, FolderRemove(fld, account, tree, sessionOK, now))

FolderRenameAct(newName) ==
    /\ IsFolder
    /\ MethodCall("Folder.Rename", <<newName>>,
                  FolderRename(fld, account, tree, sessionOK, now, newName))

FolderCreateFolderAct(folderName) ==
    /\ IsFolder
    /\ MethodCall("Folder.CreateFolder", <<folderName>>,
                  FolderCreateFolder(fld, account, tree, sessionOK, now, folderName))

FolderUploadFileAct(sourceFilePath, opened) ==
    /\ IsFolder
    /\ MethodCall("Folder.UploadFile", <<sourceFilePath, opened>>,
                  FolderUploadFile(fld, account, tree, sessionOK, now, cancelled,
                                   sourceFilePath, opened, 1))

FolderUploadFileFromStreamAct(fileName, size) ==
    /\ IsFolder
    /\ MethodCall("Folder.UploadFileFromStream", <<fileName, size>>,
                  FolderUploadFileFromStream(fld, account, tree, sessionOK, now, cancelled,
                                             fileName, size))

HandlePublishAct ==
    /\ fld # NilV
    /\ MethodCall(IF IsFolder THEN "Folder.Publish" ELSE "File.Publish", <<>>,
                  HandleLinked(fld, publishUnpublishInternal(account, tree, sessionOK, now,
                                                             fld.base.FullPath, TRUE)))

\* Unpublish of a handle without link returns the handle at once
HandleUnpublishAct ==
    /\ fld # NilV
    /\ MethodCall(IF IsFolder THEN "Folder.Unpublish" ELSE "File.Unpublish", <<>>,
                  IF fld.base.PublicLink = <<>>
                  THEN [err |-> OK, reqs |-> <<>>, val |-> fld, f |-> fld, tree |-> tree]
                  ELSE HandleLinked(fld, publishUnpublishInternal(account, tree, sessionOK, now,
                                                                  fld.base.PublicLink, FALSE)))

FileRemoveAct ==
    /\ IsFile
    /\ MethodCall("File.Remove", <<>>,
                  FileRemove(fld, RemoveOp(account, tree, sessionOK, fld.base.FullPath)))

\* File.Rename: the assignments of File.Move, from the result of Rename
FileRenameAct(newName) ==
    /\ IsFile
    /\ MethodCall("File.Rename", <<newName>>,
                  FileMove(fld, RenameOp(account, tree, sessionOK, now,
                                         fld.base.FullPath, newName)))

MutateNames == {<<"b">>}

\* the trees the handles are taken from: /a with /a/f.t, and /f.t or not
MutateTrees == {t \in InitTrees : t[pA] = "plain" /\ t[pAF] = "plain" /\ t[pF] # "shared"}

InitMutate ==
    /\ InitCache
    /\ tree \in MutateTrees

\* the caller starts from the root folder
OpenRootAct == fld = NilV /\ OpenFolder(Root)

NextMutate ==
    \/ OpenRootAct
    \/ HandleGetFilesAct
    \/ HandleGetFoldersAct
    \/ TakeSubfolder(1)
    \/ TakeFile(1)
    \/ SessionExpire
    \/ FolderRemoveAct
    \/ \E n \in MutateNames : FolderRenameAct(n)
    \/ \E n \in {<<"b">>, <<"a", SL, "b">>} : FolderCreateFolderAct(n)
    \/ \E opened \in BOOLEAN : FolderUploadFileAct(fName, opened)
    \/ \E n \in {<<>>, fName} : FolderUploadFileFromStreamAct(n, 1)
    \/ FolderMoveAct(pB)
    \/ FolderCopyAct(pB)
    \/ FileMoveAct(pA)
    \/ FileCopyAct(pA)
    \/ HandlePublishAct
    \/ HandleUnpublishAct
    \/ FileRemoveAct
    \/ \E n \in MutateNames : FileRenameAct(n)

SpecMutate == InitMutate /\ [][NextMutate]_vars

-----------------------------------------------------------------------------
(* Mutations through a Folder handle *)

\* the methods of Folder that change the cloud
FolderMutators == {"Folder.Remove", "Folder.Rename", "Folder.Move", "Folder.CreateFolder", "Folder.UploadFile", "Folder.UploadFileFromStream"}

\* the last request of the call is the listing request for the folder held
EndsWithListing(reqs, f) ==
    /\ Len(reqs) > 0
    /\ reqs[Len(reqs)] = Req("folder", getPathStartEndSlash(f.base.FullPath, TRUE, TRUE))

\* C24: after every successful mutation made through a Folder handle
\* (Remove, Rename, Move, CreateFolder, UploadFile, UploadFileFromStream)
\* a listing request for the folder is issued, whatever the freshness
\* window and the disk-usage probe say
C24_MutationForcesRefresh ==
    [][(Returns(FolderMutators) /\ res'.err = OK) => EndsWithListing(res'.reqs, fld')]_vars

\* the same for the mutators other than UploadFileFromStream
C24_OtherMutatorsForceRefresh ==
    [][(Returns(FolderMutators \ {"Folder.UploadFileFromStream"}) /\ res'.err = OK) => EndsWithListing(res'.reqs, fld')]_vars

-----------------------------------------------------------------------------
(* A refresh whose listing fetch gives nothing *)

\* the refresh u of handle f asked for the listing and got none
FetchFailed(f, u) ==
    /\ ~u.panic
    /\ f.Items.nil \/ u.changed
    /\ ~u.fetched

\* the access returning in this step ran a refresh whose fetch gave nothing
AccessFetchFailed ==
    /\ Returns({"GetFiles", "GetFolders"})
    /\ FetchFailed(fld, updateFolderInfo(fld, FALSE, account, tree, sessionOK, now))

\* C25: when the listing fetch of a cache refresh fails or yields no folder,
\* the cache state of the Folder (items, counts, size, link, last-listed
\* time, last-known used bytes) is what it was before the access
C25_FailedFetchKeepsCache ==
    [][AccessFetchFailed => fld' = fld]_vars

\* C25, the fields the fetch would have written: they are kept
C25_FailedFetchKeepsListing ==
    [][AccessFetchFailed => [fld' EXCEPT !.prevDiskUsed = 0, !.lastItemsGettingTime = 0] = [fld EXCEPT !.prevDiskUsed = 0, !.lastItemsGettingTime = 0]]_vars

\* C25, the last-known used bytes alone: a failed fetch keeps the value,
\* so the next access sees the same change of usage
C25_FailedFetchKeepsUsedBytes ==
    [][AccessFetchFailed => fld'.prevDiskUsed = fld.prevDiskUsed]_vars

-----------------------------------------------------------------------------
(* Uploads watched by a progress subscriber *)

InitProgress ==
    /\ account = LoggedIn
    /\ cancelled = FALSE
    /\ tree \in {t \in InitTrees : \A h \in Homes : t[h] # "shared"}
    /\ sessionOK = TRUE
    /\ now = 0
    /\ fld = NilV
    /\ hist = NoHist
    /\ xfer = [c \in Callers |-> Idle]
    /\ progress \in {NoProgress, [NoProgress EXCEPT !.subscribed = TRUE]}
    /\ res = NoResult

\* the sizes of the contents uploaded
ProgressSizes == {0, 1, 2}

WatchedUploadStart(name, size, dest) ==
    /\ progress.started < MaxUploads
    /\ UploadStart(1, name, size, dest)

NextProgress ==
    \/ \E n \in {<<>>, fName}, z \in ProgressSizes, d \in {Root, pB} : WatchedUploadStart(n, z, d)
    \/ UploadFinish(1)
    \/ \E i \in 1..MaxUploads : ProgressDeliver(i)
    \/ AbortAllAsyncTasks
    \/ SessionExpire

SpecProgress == InitProgress /\ [][NextProgress]_vars

\* the places of the log that hold the notification pct of upload u
Delivered(u, pct) ==
    {i \in 1..Len(progress.log) : progress.log[i].upload = u /\ progress.log[i].ProgressPercentage = pct}

\* C26: with a progress subscriber, the 0% notification of an upload
\* (bytes in progress 0) is delivered before its 100% notification in
\* every interleaving
C26_ZeroBeforeHundred ==
    \A j \in 1..Len(progress.log) :
        progress.log[j].ProgressPercentage = 100
            => \E i \in Delivered(progress.log[j].upload, 0) :
                  i < j /\ progress.log[i].BytesInProgress = 0

\* C26, the 100% notification: it is delivered by the upload that returns
\* without error, with bytes in progress = total = the content length, and
\* by no other step
C26_HundredOnSuccess ==
    [][(progress'.subscribed /\ progress'.log # progress.log /\ progress'.log[Len(progress'.log)].ProgressPercentage = 100)
       <=> (progress.subscribed /\ Returns({"Upload"}) /\ res'.err = OK /\ progress'.log = Append(progress.log, Notification(xfer[1].upload, 100, res'.args[2], res'.args[2])))]_vars

\* C26, the 0% notification: every upload that built its PUT request has
\* its 0% notification delivered or waiting to be delivered
C26_ZeroStarted ==
    \A u \in 1..progress.started :
        \/ Delivered(u, 0) # {}
        \/ \E i \in 1..Len(progress.pending) : progress.pending[i].upload = u

-----------------------------------------------------------------------------
(* The length reported with an archive *)

\* the sizes of the entries hs of the cloud that are among paths, summed
RECURSIVE SumRequested(_, _, _)
SumRequested(t, hs, paths) ==
    IF hs = <<>> THEN 0
    ELSE (IF \E i \in 1..Len(paths) : paths[i] = Head(hs) THEN SrvSize(t, Head(hs)) ELSE 0)
         + SumRequested(t, Tail(hs), paths)

\* the children of the parent folder of the paths that are requested
RequestedSize(t, paths) ==
    SumRequested(t, SrvChildHomes(t, SrvParent(paths[1])), paths)

\* C27: the content length DownloadItemsAsZIPArchive reports is the sum of
\* the sizes of the children of the inputs' shared parent folder whose full
\* path is one of the requested paths
C27_ZipLengthIsRequestedSize ==
    [][(Returns({"Zip"}) /\ res'.err = OK) => res'.val.length = RequestedSize(tree, res'.args[1])]_vars

\* C27, what is reported instead: nothing, whenever the first path names a
\* file or nothing
C27_ZipLengthOfFileIsZero ==
    [][(Returns({"Zip"}) /\ res'.err = OK /\ ~SrvIsFolder(tree, res'.args[1][1])) => res'.val.length = 0]_vars

-----------------------------------------------------------------------------
(* The client after AbortAllAsyncTasks *)

\* the operations whose requests are built without the context
NonTransfers == {"GetFolder", "CreateFolder", "Remove", "Rename", "Copy", "Move", "Publish", "Unpublish", "GetFileHistory", "GetDirectLinkZIPArchive"}

InitAbort ==
    /\ InitCache
    /\ tree \in {t \in InitTrees : t[pF] # "absent" /\ t[pA] = "plain" /\ t[pAF] = "absent"}

\* in SpecXfer the return of the PUT request and the create-file request
\* are one step; here a cancellation may arrive between them
NextAbort ==
    \/ AbortAllAsyncTasks
    \/ \E p \in {pA, pB} : GetFolderAct(p)
    \/ CreateFolderAct(pB)
    \/ \E p \in {<<>>, pF} : RemoveAct(p)
    \/ RenameAct(pF, <<"b">>)
    \/ CopyAct(pF, pA)
    \/ MoveAct(pF, pA)
    \/ \E p \in {pA, pF} : PublishAct(p)
    \/ \E l \in {PublicLink \o WeblinkOf(pF), WeblinkOf(pA)} : UnpublishAct(l)
    \/ \E revs \in SrvHistories(pF) : GetFileHistoryAct(pF, revs)
    \/ GetDirectLinkZIPArchiveAct(<<pF>>, <<>>)
    \/ UploadStart(1, fName, 1, Root)
    \/ UploadPutReturn(1)
    \/ UploadCreate(1)
    \/ DownloadStart(2, pF)
    \/ DownloadFinish(2)
    \/ ZipStart(1, <<pF>>)
    \/ ZipFinish(1)

SpecAbort == InitAbort /\ [][NextAbort]_vars

\* the request an operation exists to send
OwnRequest(op) ==
    CASE op = "GetFolder" -> "folder"
      [] op = "CreateFolder" -> "folder/add"
      [] op = "Remove" -> "remove"
      [] op = "Rename" -> "rename"
      [] op = "Copy" -> "copy"
      [] op = "Move" -> "move"
      [] op = "Publish" -> "publish"
      [] op = "Unpublish" -> "unpublish"
      [] op = "GetFileHistory" -> "history"
      [] op = "GetDirectLinkZIPArchive" -> "zip"

\* the upload returning in this step built its create-file request after
\* the context was cancelled
CreatedAfterCancel ==
    /\ Returns({"Upload"})
    /\ Len(res'.args) = 4
    /\ res'.args[4]

\* C28: only the transfer requests are bound to the cancellation context.
\* After AbortAllAsyncTasks an operation that is no transfer is not failed
\* by the cancellation and, where it succeeds, has sent its request; and
\* a cancellation that arrives after the PUT of an upload has returned does
\* not prevent the create-file request that follows
C28_OnlyTransfersBound ==
    [][/\ (cancelled /\ Returns(NonTransfers))
           => /\ res'.err # "Canceled"
              /\ res'.err = OK => Sent(res'.reqs, OwnRequest(res'.op)) # {}
       /\ CreatedAfterCancel
           => /\ res'.err # "Canceled"
              /\ Sent(res'.reqs, "file/add") # {}
       /\ (cancelled /\ Returns(Transfers) /\ ~CreatedAfterCancel)
           => res'.err # OK]_vars

\* C28: Remove succeeded after the cancellation
C28_Witness ==
    /\ cancelled
    /\ res.op = "Remove"
    /\ res.err = OK
    /\ Sent(res.reqs, "remove") # {}

\* C28: an upload was cancelled between its PUT and its create-file
\* request, and the file was created
C28_WitnessUpload ==
    /\ res.op = "Upload"
    /\ Len(res.args) = 4
    /\ res.args[4]
    /\ res.err = OK
    /\ tree[pF] # "absent"

-----------------------------------------------------------------------------
(* Handle methods that fail *)

\* the methods of File and Folder that delegate a change to the client
HandleMethods ==
    {k \o "." \o m : k \in {"File", "Folder"}, m \in {"Rename", "Move", "Copy", "Publish", "Unpublish", "Remove"}}

\* the method returning in this step returned an error
MethodFailed ==
    /\ Returns(HandleMethods)
    /\ res'.err \notin {OK, "panic"}

\* C29: when a method of a File or Folder handle (Rename, Move, Copy,
\* Publish, Unpublish, Remove) fails, Name, FullPath and PublicLink of the
\* handle are what they were and no refresh of the cache took place: the
\* handle is unchanged, and every request sent is one of the client's call
C29_FailedMethodKeepsHandle ==
    [][MethodFailed
           => /\ fld'.base.Name = fld.base.Name
              /\ fld'.base.FullPath = fld.base.FullPath
              /\ fld'.base.PublicLink = fld.base.PublicLink
              /\ fld' = fld]_vars

\* C29: Rename of a Folder failed
C29_Witness ==
    /\ res.op = "Folder.Rename"
    /\ res.err \notin {OK, "panic"}
    /\ fld.kind = "folder"
    /\ ~fld.Items.nil

\* C29: Unpublish of a File with a link failed
C29_WitnessFile ==
    /\ res.op = "File.Unpublish"
    /\ res.err \notin {OK, "panic"}
    /\ fld.kind = "file"
    /\ fld.base.PublicLink # <<>>

-----------------------------------------------------------------------------
(* The back-references of the handles returned *)

\* handle v holds its account and its client
BackReferenced(v) == v.base.account /\ v.base.client

\* the handles in the value a call returned
HandlesOf(v) ==
    IF v.kind \in {"file", "folder"} THEN {v}
    ELSE IF v.kind = "list" THEN {v.items[i] : i \in 1..Len(v.items)}
    ELSE {}

\* C30: every File or Folder handle returned by a public operation
\* (GetFolder, GetFiles, GetFolders, CreateFolder, UploadFileFromStream,
\* RestoreFileFromHistory, the Copy, Move and Rename of a handle) holds a
\* non-nil account and a non-nil client
C30_HandlesBackReferenced ==
    res.err = OK => \A v \in HandlesOf(res.val) : BackReferenced(v)

\* C30 without RestoreFileFromHistory
C30_OtherHandlesBackReferenced ==
    (res.err = OK /\ res.op # "RestoreFileFromHistory")
        => \A v \in HandlesOf(res.val) : BackReferenced(v)

=============================================================================
